---- MODULE Spec2Model ----
(***************************************************************************)
(* Merger-arbitrage engine: MarketState (lock, version counters, change    *)
(* event), ProbabilityTracker, PositionManager, OrderExecutor and the      *)
(* StrategyThread loop, modelled from src/merger_arbitrage.                *)
(*                                                                         *)
(* Probabilities are fixed-point: ProbOne stands for 1.0, so 0.70 is       *)
(* 70000 and a delta_p of 0.11375 is 11375. Prices are in cents.           *)
(*                                                                         *)
(* The poller thread (DataPoller) calls the MarketState update methods;    *)
(* each call is split at the points where the strategy thread, which       *)
(* reads the fields without taking the lock, can observe it: acquiring     *)
(* the lock, each group of field writes, the version bump, the release     *)
(* and the event.  Variables whose comment says "history" record what      *)
(* happened and are never read by the program.                             *)
(***************************************************************************)
EXTENDS Integers, Sequences, FiniteSets, TLC

\* ------------------------------------------------------------------ bounds
\* Longest recommendation list handed to validate_and_adjust.
MaxRecs == 3
\* Most MarketState update calls the poller makes in one run.
MaxPolls == 3
\* Longest validated list handed to the executor in one cycle.
MaxExecRecs == 2
\* Most strategy cycles followed from validation to execution.
MaxCycles == 2
MaxOpen == 2
\* Highest news_id the server hands out.
MaxNewsId == 4
\* Most items in one get_news reply.
MaxBatch == 2
\* Most updates the five deals take after initialize().
MaxMoves == 2
NewsIds == 1..MaxNewsId

\* ------------------------------------------------------- program constants
GROSS_POSITION_LIMIT == 100000
NET_POSITION_LIMIT == 50000
MAX_ORDER_SIZE == 5000
\* 1.0 in the fixed-point representation of probabilities.
ProbOne == 100000
HEAT_DURATION_TICKS == 600
ORDER_REFRESH_INTERVAL_TICKS == 5
URGENCY_CLOSE_TICKS == 60
\* HEDGE_RATIO_TOLERANCE = 0.10, in hundredths.
HEDGE_RATIO_TOLERANCE == 10
URGENCY_CRITICAL_TICKS == 15

Deals == {"D1", "D2"}
Tickers == {"TGX", "PHR", "BYL", "CLD"}
target_ticker == [d \in Deals |-> IF d = "D1" THEN "TGX" ELSE "BYL"]
acquirer_ticker == [d \in Deals |-> IF d = "D1" THEN "PHR" ELSE "CLD"]
initial_probability == [d \in Deals |-> IF d = "D1" THEN 70000 ELSE 55000]
target_start_price == [d \in Deals |-> IF d = "D1" THEN 4370 ELSE 4350]
acquirer_start_price == [d \in Deals |-> IF d = "D1" THEN 4750 ELSE 7930]

None == "None"
\* Python's None where a TradeRecommendation is expected.
NoRec == [none |-> TRUE]
\* No apply_news call yet.
NoNews == [deal_id |-> None, delta_p |-> 0, tracked |-> FALSE, old_p |-> 0, result |-> 0]
\* No update call in progress.
NoArg == [none |-> TRUE]
\* TradeRecommendation.price = None, a market order.
NoPrice == 0

\* ----------------------------------------------------------------- helpers
Min(a, b) == IF a <= b THEN a ELSE b
Max(a, b) == IF a >= b THEN a ELSE b
Abs(x) == IF x < 0 THEN -x ELSE x

ZeroTable == [t \in Tickers |-> 0]
\* state.prices = {} before the first update_prices.
EmptyPrices == [t \in {} |-> 0]

\* ------------------------------------------------------------------- state
VARIABLES
    \* MarketState: data fields
    current_tick, current_period, case_status,
    prices,               \* state.prices: ticker -> [bid, ask, last]
    positions,            \* state.positions, a missing ticker reads as 0
    deal_quote,           \* deals[d]: target/acquirer price, bid, ask
    deal_position,        \* deals[d]: target_position, acquirer_position
    probabilities,        \* probability_tracker.probabilities
    deal_probability,     \* deals[d].probability
    deal_resolved,        \* deals[d].resolved
    deal_resolution,      \* deals[d].resolution
    \* MarketState: version counters, lock and change event
    news_version, market_version, position_version, last_recompute_version,
    lock,                 \* "free" or the thread holding _lock
    recompute_event,      \* _recompute_event's flag
    \* poller thread: the update call in progress
    poll_pc,              \* "idle" | "acquire" | "write" | "deals" | "tracker"
                          \* | "bump" | "release" | "fire" | "return"
    poll_op,              \* the MarketState method being run
    poll_arg,             \* its arguments
    polls,                \* update calls made so far
    \* strategy thread
    running,              \* StrategyThread.running
    s_pc,                 \* position in StrategyThread._run
    triggered,            \* wait_for_change's local
    snap_gen,             \* the positions generate_signals read
    stop_pc,              \* position in StrategyThread.stop
    \* history
    last_news,            \* the last apply_news call: impact, old value, result
    ver_at_acquire,       \* the three counters when the lock was last taken
    op_fired,             \* the call in progress has set the event
    unseen_mutation,      \* an update call has released the lock and no
                          \* cycle has begun reading since
    n_out,                \* events fired since wait_for_change last returned,
                          \* while the strategy was outside wait_for_change
    set_window,           \* ... an event fired between this wait and its clear
    set_blocked,          \* ... the event was set while the strategy sat in wait
    fired_total,          \* sum of the counters at the last fired event
    cycle_start_total,    \* sum of the counters when the cycle began reading
    \* PositionManager.validate_and_adjust, one call
    pm_pc,                \* "idle" | "loop" | "done"
    pm_n,                 \* recommendations consumed by the for loop
    simulated_positions,
    simulated_gross,
    seen_ticker_actions,
    validated,
    \* StrategyThread._run lines 85-109 and the OrderExecutor, one cycle
    ex_pc,                \* "idle" | "execute" | "housekeeping" | "window"
                          \* | "closeout" | "done"
    active_recommendations,  \* state.active_recommendations = validated
    ex_list,              \* the list execute_recommendations was handed, as
                          \* indexes into active_recommendations
    ex_i,                 \* position of "for rec in recs"
    ex_remaining,         \* _execute_single's remaining, 0 outside it
    rate_limited,         \* time.time() < _rate_limited_until
    api_log,              \* history: the client calls of this cycle, in order
    \* the exchange
    exchange_position,    \* per ticker, the account's position at the exchange
                          \* with every accepted order filled
    cycles,               \* history: strategy cycles that have executed orders
    open_orders,          \* the orders GET /orders lists as OPEN
    stale_todo,           \* cancel_stale_orders: the fetched orders still to
                          \* be looked at by "for order in open_orders"
    \* SignalGenerator.generate_signals and check_hedge_drift, one cycle
    sig_pc,               \* "idle" | "deal" | "target_test" | "target_action"
                          \* | "target_qty" | "acquirer_test" | "acquirer_action"
                          \* | "acquirer_qty" | "sort" | "drift" | "done"
    sig_todo,             \* deals the running "for deal_id, deal in ..." has left
    sig_action,           \* _handle_resolved_deal's local action
    raw_signals,          \* all_recs, then raw_signals of _run
    \* main
    main_pc,              \* "serving" | "cancelled" | "stopped": main()'s
                          \* position around its "finally" block
    \* DataPoller._poll_news
    last_news_id,         \* MarketState.last_news_id
    news_pc,              \* "idle" | "loop" | "apply"
    news_items,           \* what "for item in news_items" has left
    news_item,            \* the news_id the loop body is at, 0 outside it
    news_polls,           \* polls when the loop body began
    news_start,           \* history: last_news_id when the poll began
    news_offered,         \* history: the ids get_news returned to the poll
    applied,              \* history: per news id, the MarketState calls made for it
    \* MarketState.deals, all five, and SignalGenerator._analyze_deal
    deals,                \* deal id -> DealState
    moves,                \* updates the deals have taken since initialize()
    analyzed,             \* the deal _analyze_deal last ran for, None before
    analysis              \* what that call returned

caseVars == <<current_tick, current_period, case_status>>
priceVars == <<prices, deal_quote>>
positionVars == <<positions, deal_position>>
newsVars == <<probabilities, deal_probability, deal_resolved, deal_resolution, last_news>>
dataVars == <<caseVars, priceVars, positionVars, newsVars>>
verVars == <<news_version, market_version, position_version>>
pollVars == <<poll_pc, poll_op, poll_arg, polls>>
pollHist == <<ver_at_acquire, op_fired, unseen_mutation>>
waitHist == <<n_out, set_window, set_blocked, fired_total>>
stratVars == <<running, s_pc, triggered, snap_gen, last_recompute_version>>
stratHist == <<cycle_start_total>>
pmVars == <<pm_pc, pm_n, simulated_positions, simulated_gross,
            seen_ticker_actions, validated>>
execVars == <<ex_pc, active_recommendations, ex_list, ex_i, ex_remaining,
              rate_limited, api_log>>
orderVars == <<open_orders, stale_todo>>
sigVars == <<sig_pc, sig_todo, sig_action, raw_signals>>
mainVars == <<main_pc>>
feedVars == <<last_news_id, news_pc, news_items, news_item, news_polls,
              news_start, news_offered, applied>>
valueVars == <<deals, moves, analyzed, analysis>>
procVars == <<mainVars, feedVars, valueVars>>
bookVars == <<exchange_position, cycles, orderVars, sigVars, procVars>>
vars == <<dataVars, verVars, lock, recompute_event, pollVars, pollHist, waitHist,
          stratVars, stratHist, stop_pc, pmVars, execVars, bookVars>>

NoSnap == [none |-> TRUE]

\* initialize_all_deals: every deal starts at its opening prices, flat.
InitialQuote(d) ==
    [target_price |-> target_start_price[d], target_bid |-> 0, target_ask |-> 0,
     acquirer_price |-> acquirer_start_price[d], acquirer_bid |-> 0, acquirer_ask |-> 0]

\* ------------------------------------------------------------ valuation
\* The valuation works on exact fractions n/d, d > 0, in lowest terms.
RECURSIVE Gcd(_, _)
Gcd(a, b) == IF b = 0 THEN a ELSE Gcd(b, a % b)

Q(n, d) ==
    LET g == Gcd(Abs(n), d)
    IN [n |-> (IF n >= 0 THEN n \div g ELSE -((-n) \div g)), d |-> d \div g]
QInt(k) == [n |-> k, d |-> 1]
QAdd(x, y) == Q(x.n * y.d + y.n * x.d, x.d * y.d)
QSub(x, y) == Q(x.n * y.d - y.n * x.d, x.d * y.d)
QMul(x, y) == Q(x.n * y.n, x.d * y.d)
QDiv(x, y) == IF y.n > 0 THEN Q(x.n * y.d, x.d * y.n) ELSE Q(-(x.n * y.d), x.d * (-y.n))
QLess(x, y) == x.n * y.d < y.n * x.d
QAbs(x) == [n |-> Abs(x.n), d |-> x.d]
QMin(x, y) == IF QLess(y, x) THEN y ELSE x
QMax(x, y) == IF QLess(x, y) THEN y ELSE x
\* int(x): towards zero.
QTrunc(x) == IF x.n >= 0 THEN x.n \div x.d ELSE -((-x.n) \div x.d)
\* round(x, 2), in cents; a tie goes up.
QCents(x) == (2 * x.n * 100 + x.d) \div (2 * x.d)

DealConfig(deal_id, target, acquirer, struct, cash, ratio, P0, A0, p0) ==
    [deal_id |-> deal_id, target_ticker |-> target, acquirer_ticker |-> acquirer,
     structure |-> struct, cash_component |-> cash, exchange_ratio |-> ratio,
     target_start_price |-> P0, acquirer_start_price |-> A0,
     initial_probability |-> p0]

\* config.DEALS
DEALS ==
    [D1 |-> DealConfig("D1", "TGX", "PHR", "all_cash", QInt(50), QInt(0),
                       Q(4370, 100), Q(4750, 100), Q(70, 100)),
     D2 |-> DealConfig("D2", "BYL", "CLD", "stock_for_stock", QInt(0), Q(75, 100),
                       Q(4350, 100), Q(7930, 100), Q(55, 100)),
     D3 |-> DealConfig("D3", "GGD", "PNR", "mixed", QInt(33), Q(20, 100),
                       Q(3150, 100), Q(5980, 100), Q(50, 100)),
     D4 |-> DealConfig("D4", "FSR", "ATB", "all_cash", QInt(40), QInt(0),
                       Q(3050, 100), Q(6220, 100), Q(38, 100)),
     D5 |-> DealConfig("D5", "SPK", "EEC", "stock_for_stock", QInt(0), Q(120, 100),
                       Q(5280, 100), Q(4800, 100), Q(45, 100))]
DealIds == DOMAIN DEALS

MIN_MISPRICING_THRESHOLD == Q(15, 100)
SPREAD_SAFETY_FACTOR == Q(5, 10)
MAX_POSITION_PER_DEAL == 10000

\* compute_standalone_value: K0, the deal value at the opening acquirer price.
initial_K_cash_only(config) == config.cash_component
initial_K(config) ==
    CASE config.structure = "all_cash" -> config.cash_component
      [] config.structure = "stock_for_stock" ->
             QMul(config.exchange_ratio, config.acquirer_start_price)
      [] config.structure = "mixed" ->
             QAdd(config.cash_component,
                  QMul(config.exchange_ratio, config.acquirer_start_price))

\* compute_standalone_value: V = (P0 - p0 * K0) / (1 - p0).
compute_standalone_value(config) ==
    LET p0 == config.initial_probability
        P0 == config.target_start_price
        K0 == initial_K(config)
    IN IF ~QLess(p0, QInt(1)) THEN P0
       ELSE QDiv(QSub(P0, QMul(p0, K0)), QSub(QInt(1), p0))

\* initialize_all_deals
initialize_all_deals ==
    [d \in DealIds |->
        [config |-> DEALS[d],
         probability |-> DEALS[d].initial_probability,
         standalone_value |-> compute_standalone_value(DEALS[d]),
         target_price |-> DEALS[d].target_start_price,
         acquirer_price |-> DEALS[d].acquirer_start_price,
         target_bid |-> QInt(0), target_ask |-> QInt(0),
         acquirer_bid |-> QInt(0), acquirer_ask |-> QInt(0),
         target_position |-> 0, acquirer_position |-> 0,
         resolved |-> FALSE]]

\* DealState.deal_value_K
deal_value_K(deal) ==
    LET cfg == deal.config
        price == IF deal.acquirer_price.n > 0 THEN deal.acquirer_price
                 ELSE cfg.acquirer_start_price
    IN CASE cfg.structure = "all_cash" -> cfg.cash_component
         [] cfg.structure = "stock_for_stock" -> QMul(cfg.exchange_ratio, price)
         [] cfg.structure = "mixed" ->
                QAdd(cfg.cash_component, QMul(cfg.exchange_ratio, price))

\* DealState.intrinsic_target_price: P* = p * K + (1 - p) * V.
intrinsic_target_price(deal) ==
    QAdd(QMul(deal.probability, deal_value_K(deal)),
         QMul(QSub(QInt(1), deal.probability), deal.standalone_value))

\* DealState.target_mispricing
target_mispricing(deal) ==
    IF deal.target_price.n <= 0 THEN QInt(0)
    ELSE QSub(intrinsic_target_price(deal), deal.target_price)

\* DealState.target_mispricing_pct
target_mispricing_pct(deal) ==
    IF deal.target_price.n <= 0 THEN QInt(0)
    ELSE QMul(QDiv(target_mispricing(deal), deal.target_price), QInt(100))

\* DealState.ideal_hedge_ratio, as a fraction.
deal_hedge_ratio(deal) ==
    IF deal.config.structure = "all_cash" THEN QInt(0) ELSE deal.config.exchange_ratio

\* SignalGenerator._compute_position_size
compute_position_size(deal, current_gross, mispricing) ==
    LET mispricing_pct == QDiv(QAbs(target_mispricing_pct(deal)), QInt(100))
        scale == QMin(QInt(1), QDiv(mispricing_pct, Q(5, 100)))
        p == deal.probability
        p_confidence == QMax(p, QSub(QInt(1), p))
        size0 == QTrunc(QMul(QMul(scale, p_confidence), QInt(MAX_POSITION_PER_DEAL)))
        size1 == Min(size0, MAX_ORDER_SIZE)
        headroom_gross == GROSS_POSITION_LIMIT - current_gross
        reserve == IF deal_hedge_ratio(deal).n > 0
                   THEN QTrunc(QMul(QInt(size1), deal_hedge_ratio(deal))) ELSE 0
        size2 == Min(size1, Max(0, headroom_gross - reserve))
        current_net == deal.target_position
        headroom_net == IF mispricing.n > 0 THEN NET_POSITION_LIMIT - current_net
                        ELSE NET_POSITION_LIMIT + current_net
        size3 == Min(size2, Max(0, headroom_net))
        existing == Abs(deal.target_position)
        size4 == IF existing * 10 > MAX_POSITION_PER_DEAL * 8
                 THEN Min(size3, MAX_ORDER_SIZE \div 4) ELSE size3
    IN Max(0, (size4 \div 100) * 100)

\* TradeRecommendation(...) as _analyze_deal builds it.
Leg(action, ticker, quantity, price, urgency, deal_id, is_hedge_leg) ==
    [ticker |-> ticker, action |-> action, quantity |-> quantity, urgency |-> urgency,
     order_type |-> IF price.n > 0 THEN "LIMIT" ELSE "MARKET",
     price |-> IF price.n > 0 THEN QCents(price) ELSE NoPrice,
     deal_id |-> deal_id, is_hedge_leg |-> is_hedge_leg]

\* _analyze_deal, "if mispricing > 0:", the target is undervalued.
is_overvalued(mispricing) == mispricing.n < 0
is_undervalued(mispricing) == mispricing.n > 0

\* SignalGenerator._analyze_deal
analyze_deal(deal, current_gross) ==
    LET cfg == deal.config
        mispricing == target_mispricing(deal)
        spread == IF deal.target_ask.n > 0 /\ deal.target_bid.n > 0
                  THEN QSub(deal.target_ask, deal.target_bid) ELSE QInt(0)
        buy == is_undervalued(mispricing)
        target_action == IF buy THEN "BUY" ELSE "SELL"
        target_price ==
            IF buy THEN IF deal.target_ask.n > 0 THEN deal.target_ask ELSE deal.target_price
            ELSE IF deal.target_bid.n > 0 THEN deal.target_bid ELSE deal.target_price
        acquirer_action == IF buy THEN "SELL" ELSE "BUY"
        acquirer_price ==
            IF buy
            THEN IF deal.acquirer_bid.n > 0 THEN deal.acquirer_bid ELSE deal.acquirer_price
            ELSE IF deal.acquirer_ask.n > 0 THEN deal.acquirer_ask ELSE deal.acquirer_price
        target_qty == compute_position_size(deal, current_gross, mispricing)
        pct == QAbs(target_mispricing_pct(deal))
        urgency == IF QLess(QInt(3), pct) THEN "HIGH"
                   ELSE IF QLess(Q(15, 10), pct) THEN "MEDIUM" ELSE "LOW"
        hedge_qty == Min(QTrunc(QMul(QInt(target_qty), deal_hedge_ratio(deal))),
                         MAX_ORDER_SIZE)
    IN IF QLess(QAbs(mispricing), MIN_MISPRICING_THRESHOLD) THEN <<>>
       ELSE IF spread.n > 0 /\ QLess(QAbs(mispricing), QMul(spread, SPREAD_SAFETY_FACTOR))
       THEN <<>>
       ELSE IF target_qty <= 0 THEN <<>>
       ELSE <<Leg(target_action, cfg.target_ticker, target_qty, target_price,
                  urgency, cfg.deal_id, FALSE)>>
            \o IF cfg.structure # "all_cash" /\ deal_hedge_ratio(deal).n > 0
                  /\ hedge_qty > 0
               THEN <<Leg(acquirer_action, cfg.acquirer_ticker, hedge_qty,
                          acquirer_price, urgency, cfg.deal_id, TRUE)>>
               ELSE <<>>

\* ------------------------------------------------------------------- Init
\* MarketState.__init__ followed by initialize(); threads not yet started.
Init ==
    /\ current_tick = 0
    /\ current_period = 1
    /\ case_status = "STOPPED"
    /\ prices = EmptyPrices
    /\ positions = ZeroTable
    /\ deal_quote = [d \in Deals |-> InitialQuote(d)]
    /\ deal_position = [d \in Deals |-> [target_position |-> 0, acquirer_position |-> 0]]
    /\ probabilities = initial_probability
    /\ deal_probability = initial_probability
    /\ deal_resolved = [d \in Deals |-> FALSE]
    /\ deal_resolution = [d \in Deals |-> None]
    /\ news_version = 0
    /\ market_version = 0
    /\ position_version = 0
    /\ last_recompute_version = 0
    /\ lock = "free"
    /\ recompute_event = FALSE
    /\ poll_pc = "idle"
    /\ poll_op = None
    /\ poll_arg = NoArg
    /\ polls = 0
    /\ running = FALSE
    /\ s_pc = "not_started"
    /\ triggered = FALSE
    /\ snap_gen = NoSnap
    /\ stop_pc = "idle"
    /\ last_news = NoNews
    /\ ver_at_acquire = <<0, 0, 0>>
    /\ op_fired = FALSE
    /\ unseen_mutation = FALSE
    /\ n_out = 0
    /\ set_window = FALSE
    /\ set_blocked = FALSE
    /\ fired_total = 0
    /\ cycle_start_total = 0
    /\ pm_pc = "idle"
    /\ pm_n = 0
    /\ simulated_positions = ZeroTable
    /\ simulated_gross = 0
    /\ seen_ticker_actions = {}
    /\ validated = <<>>
    /\ ex_pc = "idle"
    /\ active_recommendations = <<>>
    /\ ex_list = <<>>
    /\ ex_i = 1
    /\ ex_remaining = 0
    /\ rate_limited = FALSE
    /\ api_log = <<>>
    /\ exchange_position = ZeroTable
    /\ cycles = 0
    /\ open_orders = {}
    /\ stale_todo = <<>>
    /\ sig_pc = "idle"
    /\ sig_todo = <<>>
    /\ sig_action = None
    /\ raw_signals = <<>>
    /\ main_pc = "serving"
    /\ last_news_id = 0
    /\ news_pc = "idle"
    /\ news_items = <<>>
    /\ news_item = 0
    /\ news_polls = 0
    /\ news_start = 0
    /\ news_offered = {}
    /\ applied = [n \in NewsIds |-> 0]
    /\ deals = initialize_all_deals
    /\ moves = 0
    /\ analyzed = None
    /\ analysis = <<>>

\* ============================================================ MarketState
RECURSIVE SumAbs(_, _)
SumAbs(pos, ts) ==
    IF ts = {} THEN 0
    ELSE LET t == CHOOSE x \in ts : TRUE
         IN Abs(pos[t]) + SumAbs(pos, ts \ {t})

\* MarketState.gross_position
gross_position(pos) == SumAbs(pos, Tickers)

\* The sum needs_recompute and mark_recomputed form.
version_total == news_version + market_version + position_version

\* MarketState.needs_recompute
needs_recompute == version_total > last_recompute_version

\* ===================================================== ProbabilityTracker
\* The new probability apply_news stores and returns for a tracked deal.
apply_news_unclamped(old_p, delta_p) == old_p + delta_p
apply_news_new_p(old_p, delta_p) == Max(0, Min(ProbOne, old_p + delta_p))

\* ProbabilityTracker.apply_news: <<probabilities after the call, result>>.
apply_news(probs, impact) ==
    IF impact.deal_id \notin DOMAIN probs
    THEN <<probs, 0>>
    ELSE LET new_p == apply_news_new_p(probs[impact.deal_id], impact.delta_p)
         IN <<[probs EXCEPT ![impact.deal_id] = new_p], new_p>>

\* ProbabilityTracker.mark_resolved.
mark_resolved(probs, deal_id, completed) ==
    [d \in DOMAIN probs \cup {deal_id} |->
        IF d = deal_id THEN (IF completed THEN ProbOne ELSE 0) ELSE probs[d]]

\* ========================================================== poller thread
\* What the poller's steps never touch.
PollerFrame == UNCHANGED <<stratVars, stratHist, stop_pc, pmVars, execVars, bookVars>>

\* A poll operation starts and calls a MarketState update method.
poll_call(op, arg) ==
    /\ poll_pc = "idle"
    /\ polls < MaxPolls
    /\ polls' = polls + 1
    /\ poll_op' = op
    /\ poll_arg' = arg
    /\ poll_pc' = "acquire"
    /\ op_fired' = FALSE
    /\ UNCHANGED <<dataVars, verVars, lock, recompute_event, ver_at_acquire,
                   unseen_mutation, waitHist>>
    /\ PollerFrame

\* DataPoller._poll_case: update_tick(tick, period, status).
call_update_tick(c) ==
    poll_call("update_tick", [tick |-> c.tick, period |-> 1, status |-> c.status])

\* DataPoller._poll_securities: update_prices(price_data), then
\* update_positions(positions), both built from one get_securities reply.
call_update_prices(sec) ==
    poll_call("update_prices", [price_data |-> sec.price_data, positions |-> sec.positions])

\* DataPoller._poll_news, a news item with an impact.
call_apply_news_impact(impact) ==
    poll_call("apply_news_impact",
              [deal_id |-> impact.deal_id, delta_p |-> impact.delta_p, new_p |-> 0])

\* DataPoller._poll_news, a resolution item.
call_mark_deal_resolved(deal_id, completed) ==
    poll_call("mark_deal_resolved", [deal_id |-> deal_id, completed |-> completed])

\* "with self._lock:" entered.
lock_acquire ==
    /\ poll_pc = "acquire"
    /\ lock = "free"
    /\ lock' = "poller"
    /\ ver_at_acquire' = <<news_version, market_version, position_version>>
    /\ poll_pc' = "write"
    /\ UNCHANGED <<dataVars, verVars, recompute_event, poll_op, poll_arg, polls,
                   op_fired, unseen_mutation, waitHist>>
    /\ PollerFrame

\* What a step inside the critical section leaves alone besides the data.
InsideFrame ==
    /\ UNCHANGED <<lock, recompute_event, poll_op, polls, pollHist, waitHist>>
    /\ PollerFrame

\* update_tick: the three assignments. It has no counter and no event.
update_tick_write ==
    /\ poll_op = "update_tick" /\ poll_pc = "write"
    /\ current_tick' = poll_arg.tick
    /\ current_period' = poll_arg.period
    /\ case_status' = poll_arg.status
    /\ poll_pc' = "release"
    /\ UNCHANGED <<priceVars, positionVars, newsVars, verVars, poll_arg>>
    /\ InsideFrame

\* update_prices: self.prices = price_data.
update_prices_write ==
    /\ poll_op = "update_prices" /\ poll_pc = "write"
    /\ prices' = poll_arg.price_data
    /\ poll_pc' = "deals"
    /\ UNCHANGED <<caseVars, deal_quote, positionVars, newsVars, verVars, poll_arg>>
    /\ InsideFrame

\* The quote of deal d after update_prices has gone over it.
QuoteFrom(price_data, d, old) ==
    LET t == target_ticker[d]
        a == acquirer_ticker[d]
        q1 == IF t \in DOMAIN price_data
              THEN [old EXCEPT !.target_price = price_data[t].last,
                               !.target_bid = price_data[t].bid,
                               !.target_ask = price_data[t].ask]
              ELSE old
    IN IF a \in DOMAIN price_data
       THEN [q1 EXCEPT !.acquirer_price = price_data[a].last,
                       !.acquirer_bid = price_data[a].bid,
                       !.acquirer_ask = price_data[a].ask]
       ELSE q1

\* update_prices: the loop over the deals.
update_prices_deals ==
    /\ poll_op = "update_prices" /\ poll_pc = "deals"
    /\ deal_quote' = [d \in Deals |-> QuoteFrom(poll_arg.price_data, d, deal_quote[d])]
    /\ poll_pc' = "bump"
    /\ UNCHANGED <<caseVars, prices, positionVars, newsVars, verVars, poll_arg>>
    /\ InsideFrame

\* update_positions: self.positions = positions.
update_positions_write ==
    /\ poll_op = "update_positions" /\ poll_pc = "write"
    /\ positions' = poll_arg.positions
    /\ poll_pc' = "deals"
    /\ UNCHANGED <<caseVars, priceVars, deal_position, newsVars, verVars, poll_arg>>
    /\ InsideFrame

\* update_positions: the loop over the deals.
update_positions_deals ==
    /\ poll_op = "update_positions" /\ poll_pc = "deals"
    /\ deal_position' =
          [d \in Deals |->
              [target_position |-> poll_arg.positions[target_ticker[d]],
               acquirer_position |-> poll_arg.positions[acquirer_ticker[d]]]]
    /\ poll_pc' = "bump"
    /\ UNCHANGED <<caseVars, priceVars, positions, newsVars, verVars, poll_arg>>
    /\ InsideFrame

\* apply_news_impact: new_p = self.probability_tracker.apply_news(impact).
apply_news_impact_tracker ==
    /\ poll_op = "apply_news_impact" /\ poll_pc = "write"
    /\ LET r == apply_news(probabilities, poll_arg)
           known == poll_arg.deal_id \in DOMAIN probabilities
       IN /\ probabilities' = r[1]
          /\ poll_arg' = [poll_arg EXCEPT !.new_p = r[2]]
          /\ last_news' = [deal_id |-> poll_arg.deal_id, delta_p |-> poll_arg.delta_p,
                           tracked |-> known,
                           old_p |-> IF known THEN probabilities[poll_arg.deal_id] ELSE 0,
                           result |-> r[2]]
    /\ poll_pc' = "deals"
    /\ UNCHANGED <<caseVars, priceVars, positionVars, deal_probability,
                   deal_resolved, deal_resolution, verVars>>
    /\ InsideFrame

\* apply_news_impact: self.deals[impact.deal_id].probability = new_p.
apply_news_impact_deal ==
    /\ poll_op = "apply_news_impact" /\ poll_pc = "deals"
    /\ deal_probability' =
          IF poll_arg.deal_id \in Deals
          THEN [deal_probability EXCEPT ![poll_arg.deal_id] = poll_arg.new_p]
          ELSE deal_probability
    /\ poll_pc' = "bump"
    /\ UNCHANGED <<caseVars, priceVars, positionVars, probabilities, deal_resolved,
                   deal_resolution, last_news, verVars, poll_arg>>
    /\ InsideFrame

\* mark_deal_resolved: the three DealState assignments.
mark_deal_resolved_deal ==
    /\ poll_op = "mark_deal_resolved" /\ poll_pc = "write"
    /\ IF poll_arg.deal_id \in Deals
       THEN /\ deal_resolved' = [deal_resolved EXCEPT ![poll_arg.deal_id] = TRUE]
            /\ deal_resolution' = [deal_resolution EXCEPT ![poll_arg.deal_id] =
                                      IF poll_arg.completed THEN "completed" ELSE "failed"]
            /\ deal_probability' = [deal_probability EXCEPT ![poll_arg.deal_id] =
                                      IF poll_arg.completed THEN ProbOne ELSE 0]
       ELSE UNCHANGED <<deal_resolved, deal_resolution, deal_probability>>
    /\ poll_pc' = "tracker"
    /\ UNCHANGED <<caseVars, priceVars, positionVars, probabilities, last_news,
                   verVars, poll_arg>>
    /\ InsideFrame

\* mark_deal_resolved: self.probability_tracker.mark_resolved(deal_id, completed).
mark_deal_resolved_tracker ==
    /\ poll_op = "mark_deal_resolved" /\ poll_pc = "tracker"
    /\ probabilities' = mark_resolved(probabilities, poll_arg.deal_id, poll_arg.completed)
    /\ poll_pc' = "bump"
    /\ UNCHANGED <<caseVars, priceVars, positionVars, deal_probability, deal_resolved,
                   deal_resolution, last_news, verVars, poll_arg>>
    /\ InsideFrame

\* The counter each method increments at the end of its "with" block.
CounterOf(op) ==
    CASE op = "update_prices" -> "market"
      [] op = "update_positions" -> "position"
      [] op = "apply_news_impact" -> "news"
      [] op = "mark_deal_resolved" -> "news"
      [] OTHER -> None

\* self._xxx_version += 1
version_bump ==
    /\ poll_pc = "bump"
    /\ news_version' = IF CounterOf(poll_op) = "news" THEN news_version + 1 ELSE news_version
    /\ market_version' =
          IF CounterOf(poll_op) = "market" THEN market_version + 1 ELSE market_version
    /\ position_version' =
          IF CounterOf(poll_op) = "position" THEN position_version + 1 ELSE position_version
    /\ poll_pc' = "release"
    /\ UNCHANGED <<dataVars, poll_arg>>
    /\ InsideFrame

\* The methods that call _fire_event after their "with" block.
FiringOps == {"update_prices", "apply_news_impact", "mark_deal_resolved"}

\* "with self._lock:" left.
lock_release ==
    /\ poll_pc = "release"
    /\ lock' = "free"
    /\ unseen_mutation' = TRUE
    /\ poll_pc' = IF poll_op \in FiringOps THEN "fire" ELSE "return"
    /\ UNCHANGED <<dataVars, verVars, recompute_event, poll_op, poll_arg, polls,
                   ver_at_acquire, op_fired, waitHist>>
    /\ PollerFrame

\* MarketState._fire_event: self._recompute_event.set(); no callback is
\* ever registered, so the loop over _event_callbacks is empty.
fire_event ==
    /\ poll_pc = "fire"
    /\ recompute_event' = TRUE
    /\ op_fired' = TRUE
    /\ fired_total' = version_total
    /\ n_out' = IF s_pc \notin {"wait", "clear"} THEN n_out + 1 ELSE n_out
    /\ set_window' = (set_window \/ s_pc = "clear")
    /\ set_blocked' = (set_blocked \/ s_pc = "wait")
    /\ poll_pc' = "return"
    /\ UNCHANGED <<dataVars, verVars, lock, poll_op, poll_arg, polls, ver_at_acquire,
                   unseen_mutation>>
    /\ PollerFrame

\* The update method returns; _poll_securities goes on to update_positions.
op_return ==
    /\ poll_pc = "return"
    /\ IF poll_op = "update_prices"
       THEN /\ poll_op' = "update_positions"
            /\ poll_pc' = "acquire"
            /\ op_fired' = FALSE
            /\ UNCHANGED poll_arg
       ELSE /\ poll_op' = None
            /\ poll_pc' = "idle"
            /\ poll_arg' = NoArg
            /\ UNCHANGED op_fired
    /\ UNCHANGED <<dataVars, verVars, lock, recompute_event, polls, ver_at_acquire,
                   unseen_mutation, waitHist>>
    /\ PollerFrame

\* The steps every update call shares.
PollerSteps ==
    \/ lock_acquire
    \/ version_bump
    \/ lock_release
    \/ fire_event
    \/ op_return

NewsSteps ==
    \/ apply_news_impact_tracker
    \/ apply_news_impact_deal
    \/ mark_deal_resolved_deal
    \/ mark_deal_resolved_tracker

MarketSteps ==
    \/ update_tick_write
    \/ update_prices_write
    \/ update_prices_deals
    \/ update_positions_write
    \/ update_positions_deals

\* Impacts the poller hands over: tracked deals and one unmapped id, with
\* deltas that overshoot either end of [0, 1] and deltas that do not.
NewsDeals == Deals \cup {"D99"}
DeltaValues == {-150000, -25200, 11375, 60000}

\* The news path alone: each call runs to completion before the next.
NextProb ==
    \/ \E d \in NewsDeals, dp \in DeltaValues :
          call_apply_news_impact([deal_id |-> d, delta_p |-> dp])
    \/ \E d \in Deals, c \in BOOLEAN : call_mark_deal_resolved(d, c)
    \/ PollerSteps
    \/ NewsSteps

SpecProb == Init /\ [][NextProb]_vars

\* ======================================================== strategy thread
\* What the strategy's steps never touch.
StrategyFrame ==
    UNCHANGED <<dataVars, verVars, lock, pollVars, pollHist, stop_pc, pmVars, execVars,
                bookVars>>

\* StrategyThread.start
strategy_start ==
    /\ s_pc = "not_started"
    /\ running' = TRUE
    /\ s_pc' = "loop"
    /\ UNCHANGED <<triggered, snap_gen, last_recompute_version,
                   recompute_event, waitHist, stratHist>>
    /\ StrategyFrame

\* "while self.running:" and the call of wait_for_change(timeout=0.3).
loop_test ==
    /\ s_pc = "loop"
    /\ s_pc' = IF running THEN "wait" ELSE "exited"
    /\ UNCHANGED <<running, triggered, snap_gen, last_recompute_version,
                   recompute_event, waitHist, stratHist>>
    /\ StrategyFrame

\* wait_for_change: _recompute_event.wait(timeout) returns with the flag set.
wait_wake ==
    /\ s_pc = "wait"
    /\ recompute_event
    /\ triggered' = TRUE
    /\ s_pc' = "clear"
    /\ UNCHANGED <<running, snap_gen, last_recompute_version,
                   recompute_event, waitHist, stratHist>>
    /\ StrategyFrame

\* wait_for_change: the timeout expires with the flag not set.
wait_timeout ==
    /\ s_pc = "wait"
    /\ ~recompute_event
    /\ triggered' = FALSE
    /\ s_pc' = "clear"
    /\ UNCHANGED <<running, snap_gen, last_recompute_version,
                   recompute_event, waitHist, stratHist>>
    /\ StrategyFrame

\* wait_for_change: _recompute_event.clear(); return triggered.
wait_clear ==
    /\ s_pc = "clear"
    /\ recompute_event' = FALSE
    /\ s_pc' = "check_running"
    /\ n_out' = 0
    /\ set_window' = FALSE
    /\ set_blocked' = FALSE
    /\ UNCHANGED <<running, triggered, snap_gen, last_recompute_version,
                   fired_total, stratHist>>
    /\ StrategyFrame

\* "if not self.running: break"
check_running ==
    /\ s_pc = "check_running"
    /\ s_pc' = IF running THEN "check_status" ELSE "exited"
    /\ UNCHANGED <<running, triggered, snap_gen, last_recompute_version,
                   recompute_event, waitHist, stratHist>>
    /\ StrategyFrame

\* The cycle runs on every wake-up with the case ACTIVE, whatever
\* wait_for_change returned.
cycle_gate_triggered == case_status = "ACTIVE" /\ triggered
cycle_gate == case_status = "ACTIVE"

\* 'if self.state.case_status != "ACTIVE": continue'
check_status ==
    /\ s_pc = "check_status"
    /\ s_pc' = IF cycle_gate THEN "generate" ELSE "loop"
    /\ UNCHANGED <<running, triggered, snap_gen, last_recompute_version,
                   recompute_event, waitHist, stratHist>>
    /\ StrategyFrame

\* generate_signals(self.state): reads the deals, state.positions and
\* state.prices, none of it under the lock.
generate_signals ==
    /\ s_pc = "generate"
    /\ snap_gen' = [positions |-> positions, deal_position |-> deal_position]
    /\ cycle_start_total' = version_total
    /\ unseen_mutation' = FALSE
    /\ s_pc' = "validate"
    /\ UNCHANGED <<running, triggered, last_recompute_version, recompute_event, waitHist>>
    /\ UNCHANGED <<dataVars, verVars, lock, pollVars, ver_at_acquire, op_fired,
                   stop_pc, pmVars, execVars, bookVars>>

\* check_hedge_drift(self.state) reads the deals' positions and
\* validate_and_adjust(raw_signals, self.state) reads state.positions.
validate_signals ==
    /\ s_pc = "validate"
    /\ snap_gen' = NoSnap
    /\ s_pc' = "execute"
    /\ UNCHANGED <<running, triggered, last_recompute_version,
                   recompute_event, waitHist, stratHist>>
    /\ StrategyFrame

\* Lines 85-109: publish, execute, cancel stale orders, sync, closeout;
\* the OrderExecutor section below takes these lines step by step.
execute_orders ==
    /\ s_pc = "execute"
    /\ s_pc' = "mark"
    /\ UNCHANGED <<running, triggered, snap_gen, last_recompute_version,
                   recompute_event, waitHist, stratHist>>
    /\ StrategyFrame

\* The counters mark_recomputed stores.
mark_recomputed_value == version_total

\* self.state.mark_recomputed()
mark_recomputed ==
    /\ s_pc = "mark"
    /\ last_recompute_version' = mark_recomputed_value
    /\ cycle_start_total' = 0
    /\ s_pc' = "loop"
    /\ UNCHANGED <<running, triggered, snap_gen, recompute_event, waitHist>>
    /\ StrategyFrame

\* "except Exception": an exception out of the executor ends the cycle.
cycle_exception ==
    /\ s_pc = "execute"
    /\ cycle_start_total' = 0
    /\ s_pc' = "sleep"
    /\ UNCHANGED <<running, triggered, snap_gen, last_recompute_version,
                   recompute_event, waitHist>>
    /\ StrategyFrame

\* time.sleep(1) is over.
sleep_done ==
    /\ s_pc = "sleep"
    /\ s_pc' = "loop"
    /\ UNCHANGED <<running, triggered, snap_gen, last_recompute_version,
                   recompute_event, waitHist, stratHist>>
    /\ StrategyFrame

StrategySteps ==
    \/ loop_test
    \/ wait_wake
    \/ wait_timeout
    \/ wait_clear
    \/ check_running
    \/ check_status
    \/ generate_signals
    \/ validate_signals
    \/ execute_orders
    \/ mark_recomputed
    \/ cycle_exception
    \/ sleep_done

\* StrategyThread.stop: self.running = False
stop_flag ==
    /\ stop_pc = "idle"
    /\ s_pc # "not_started"
    /\ running' = FALSE
    /\ stop_pc' = "set"
    /\ UNCHANGED <<dataVars, verVars, lock, recompute_event, pollVars, pollHist,
                   waitHist, s_pc, triggered, snap_gen,
                   last_recompute_version, stratHist, pmVars, execVars, bookVars>>

\* The flag after "self.state._recompute_event.set()".
stop_event_untouched == recompute_event
stop_event == TRUE

\* StrategyThread.stop: self.state._recompute_event.set()
stop_set ==
    /\ stop_pc = "set"
    /\ recompute_event' = stop_event
    /\ set_blocked' = (set_blocked \/ s_pc = "wait")
    /\ stop_pc' = "join"
    /\ UNCHANGED <<dataVars, verVars, lock, pollVars, pollHist, n_out, set_window,
                   fired_total, stratVars, stratHist, pmVars, execVars, bookVars>>

\* ------------------------------------------------------------ the system
\* What get_case, get_securities and the classified news hand the poller.
CaseInputs == {[tick |-> 300, status |-> "ACTIVE"], [tick |-> 600, status |-> "STOPPED"]}
Quote(last) == [bid |-> last - 5, ask |-> last + 5, last |-> last]
MovedPrices ==
    [t \in Tickers |->
        Quote(CASE t = "TGX" -> 4500 [] t = "PHR" -> 4700 [] t = "BYL" -> 4200 [] OTHER -> 8000)]
HeldTable ==
    [t \in Tickers |->
        CASE t = "TGX" -> 1000 [] t = "PHR" -> 0 [] t = "BYL" -> 2000 [] OTHER -> -1500]
SecuritiesInputs == {[price_data |-> MovedPrices, positions |-> HeldTable]}
ImpactInputs == {[deal_id |-> "D1", delta_p |-> -25200]}

Next ==
    \/ \E c \in CaseInputs : call_update_tick(c)
    \/ \E sec \in SecuritiesInputs : call_update_prices(sec)
    \/ \E i \in ImpactInputs : call_apply_news_impact(i)
    \/ call_mark_deal_resolved("D1", TRUE)
    \/ PollerSteps
    \/ NewsSteps
    \/ MarketSteps
    \/ strategy_start
    \/ StrategySteps
    \/ stop_flag
    \/ stop_set

Spec == Init /\ [][Next]_vars

\* ======================================================== PositionManager
\* PositionManager._adjust_for_limits: the adjusted recommendation, or NoRec.
adjust_for_limits_no_gross(rec, pos, current_gross) ==
    LET q1 == Min(rec.quantity, MAX_ORDER_SIZE)
        current_net == pos[rec.ticker]
        max_allowed == IF rec.action = "BUY"
                       THEN NET_POSITION_LIMIT - current_net
                       ELSE NET_POSITION_LIMIT + current_net
        q2 == Min(q1, Max(0, max_allowed))
    IN IF q2 <= 0 THEN NoRec ELSE [rec EXCEPT !.quantity = q2]

adjust_for_limits(rec, pos, current_gross) ==
    LET q1 == Min(rec.quantity, MAX_ORDER_SIZE)
        current_net == pos[rec.ticker]
        max_allowed == IF rec.action = "BUY"
                       THEN NET_POSITION_LIMIT - current_net
                       ELSE NET_POSITION_LIMIT + current_net
        q2 == Min(q1, Max(0, max_allowed))
        remaining_gross == GROSS_POSITION_LIMIT - current_gross
        q3 == Min(q2, Max(0, remaining_gross))
    IN IF q3 <= 0 THEN NoRec ELSE [rec EXCEPT !.quantity = q3]

\* What validate_and_adjust never touches.
PMFrame ==
    UNCHANGED <<caseVars, priceVars, deal_position, newsVars, verVars, lock,
                recompute_event, pollVars, pollHist, waitHist, stratVars, stratHist,
                stop_pc, execVars, bookVars>>

\* validate_and_adjust, entry: the simulation is seeded from the state.
validate_begin(start) ==
    /\ pm_pc = "idle"
    /\ positions' = start
    /\ simulated_positions' = start
    /\ simulated_gross' = gross_position(start)
    /\ seen_ticker_actions' = {}
    /\ validated' = <<>>
    /\ pm_n' = 0
    /\ pm_pc' = "loop"
    /\ PMFrame

\* "if key in seen_ticker_actions and rec.urgency != 'CRITICAL': continue"
skip_duplicate_never(rec, seen) == FALSE
skip_duplicate(rec, seen) ==
    <<rec.ticker, rec.action>> \in seen /\ rec.urgency # "CRITICAL"

\* validate_and_adjust, one iteration of the for loop over recs.
validate_step(rec) ==
    /\ pm_pc = "loop"
    /\ pm_n < MaxRecs
    /\ pm_n' = pm_n + 1
    /\ LET key == <<rec.ticker, rec.action>>
           adjusted == adjust_for_limits(rec, simulated_positions, simulated_gross)
       IN IF skip_duplicate(rec, seen_ticker_actions)
          THEN UNCHANGED <<simulated_positions, simulated_gross,
                           seen_ticker_actions, validated>>
          ELSE IF adjusted # NoRec /\ adjusted.quantity > 0
          THEN LET delta == IF adjusted.action = "BUY"
                            THEN adjusted.quantity ELSE -adjusted.quantity
                   sim == [simulated_positions EXCEPT ![adjusted.ticker] = @ + delta]
               IN /\ simulated_positions' = sim
                  /\ simulated_gross' = gross_position(sim)
                  /\ validated' = Append(validated, adjusted)
                  /\ seen_ticker_actions' = seen_ticker_actions \cup {key}
          ELSE UNCHANGED <<simulated_positions, simulated_gross,
                           seen_ticker_actions, validated>>
    /\ UNCHANGED <<positions, pm_pc>>
    /\ PMFrame

\* validate_and_adjust, return after the last recommendation.
validate_return ==
    /\ pm_pc = "loop"
    /\ pm_pc' = "done"
    /\ UNCHANGED <<positions, pm_n, simulated_positions, simulated_gross,
                   seen_ticker_actions, validated>>
    /\ PMFrame

\* Starting tables within both limits, some of them at a limit.
StartValues == {-48000, 0, 50000}
RecTickers == {"TGX", "BYL"}
StartTables ==
    {p \in [Tickers -> StartValues] :
        /\ p["CLD"] = 0
        /\ gross_position(p) <= GROSS_POSITION_LIMIT}
RecInputs ==
    [ticker : RecTickers, action : {"BUY", "SELL"},
     quantity : {3000, 10000}, urgency : {"LOW", "CRITICAL"}]

NextPM ==
    \/ \E start \in StartTables : validate_begin(start)
    \/ \E rec \in RecInputs : validate_step(rec)
    \/ validate_return

SpecPM == Init /\ [][NextPM]_vars

\* ===================================================== consecutive cycles
\* The table once every recommendation of recs[1..n] is filled.
RECURSIVE AfterFills(_, _, _)
AfterFills(table, recs, n) ==
    IF n = 0 THEN table
    ELSE [AfterFills(table, recs, n - 1) EXCEPT ![recs[n].ticker] =
             IF recs[n].action = "BUY" THEN @ + recs[n].quantity
             ELSE @ - recs[n].quantity]

\* Orders accepted by the exchange and not yet part of state.positions.
in_flight == [t \in Tickers |-> exchange_position[t] - positions[t]]

\* The account as the trader finds it at connect: holdings within limits.
account_opened(start) ==
    /\ polls = 0 /\ poll_pc = "idle" /\ cycles = 0 /\ pm_pc = "idle"
    /\ exchange_position = ZeroTable
    /\ start # ZeroTable
    /\ exchange_position' = start
    /\ UNCHANGED <<dataVars, verVars, lock, recompute_event, pollVars, pollHist,
                   waitHist, stratVars, stratHist, stop_pc, pmVars, execVars, cycles,
                   orderVars, sigVars, procVars>>

\* get_securities answers with the account's positions.
call_poll_securities ==
    call_update_prices([price_data |-> MovedPrices, positions |-> exchange_position])

\* main.py line 82: validate_and_adjust(raw_signals, self.state); the cycles
\* followed are those after the first securities poll.
cycle_validate ==
    /\ cycles < MaxCycles
    /\ position_version >= 1
    /\ validate_begin(positions)

\* main.py lines 87-89 with every submit_order accepted: the validated
\* recommendations are now orders at the exchange.
execute_validated ==
    /\ pm_pc = "done"
    /\ exchange_position' = AfterFills(exchange_position, validated, Len(validated))
    /\ cycles' = cycles + 1
    /\ pm_pc' = "idle"
    /\ UNCHANGED <<dataVars, verVars, lock, recompute_event, pollVars, pollHist,
                   waitHist, stratVars, stratHist, stop_pc, pm_n, simulated_positions,
                   simulated_gross, seen_ticker_actions, validated, execVars,
                   orderVars, sigVars, procVars>>

\* Raw signals of the cycles followed: entries on the two targets.
CycleRecs ==
    {[ticker |-> "TGX", action |-> "SELL", quantity |-> 3000, urgency |-> "LOW"],
     [ticker |-> "TGX", action |-> "BUY", quantity |-> 3000, urgency |-> "LOW"],
     [ticker |-> "BYL", action |-> "BUY", quantity |-> 10000, urgency |-> "MEDIUM"]}

AccountTables == {p \in StartTables : p["PHR"] = 0}

NextCycles ==
    \/ \E start \in AccountTables : account_opened(start)
    \/ call_poll_securities
    \/ PollerSteps
    \/ update_prices_write
    \/ update_prices_deals
    \/ update_positions_write
    \/ update_positions_deals
    \/ cycle_validate
    \/ \E rec \in CycleRecs : validate_step(rec)
    \/ validate_return
    \/ execute_validated

SpecCycles == Init /\ [][NextCycles]_vars

\* ========================================================== OrderExecutor
\* MarketState.ticks_remaining
ticks_remaining == Max(0, HEAT_DURATION_TICKS - current_tick)

\* What the executor's steps never touch.
OrderFrame ==
    UNCHANGED <<dataVars, verVars, lock, recompute_event, pollVars, pollHist, waitHist,
                stratVars, stratHist, stop_pc, pmVars, exchange_position, cycles,
                sigVars, procVars>>
ExecFrame == OrderFrame /\ UNCHANGED orderVars

\* One client call as api_log keeps it.
ApiCall(call, idx, offset, rec, quantity, result) ==
    [call |-> call, rec |-> idx, offset |-> offset, ticker |-> rec.ticker,
     order_type |-> rec.order_type, quantity |-> quantity, action |-> rec.action,
     price |-> IF rec.order_type = "LIMIT" THEN rec.price ELSE NoPrice,
     result |-> result]

\* The recommendation under "for rec in recs".
CurrentRec == active_recommendations[ex_list[ex_i]]

\* main.py lines 85-89: self.state.active_recommendations = validated;
\* "if validated:" execute_recommendations(validated, self.state).
publish_validated(recs) ==
    /\ ex_pc \in {"idle", "done"}
    /\ case_status = "ACTIVE"
    /\ active_recommendations' = recs
    /\ ex_list' = [i \in 1..Len(recs) |-> i]
    /\ ex_i' = 1
    /\ ex_remaining' = 0
    /\ api_log' = <<>>
    /\ ex_pc' = IF recs # <<>> THEN "execute" ELSE "housekeeping"
    /\ UNCHANGED rate_limited
    /\ ExecFrame

\* execute_recommendations is running, for the validated list or for closeout.
InExecute == ex_pc \in {"execute", "closeout"}

\* execute_recommendations: "for rec in recs" is exhausted.
execute_return ==
    /\ InExecute /\ ex_remaining = 0 /\ ex_i > Len(ex_list)
    /\ ex_pc' = IF ex_pc = "execute" THEN "housekeeping" ELSE "done"
    /\ UNCHANGED <<active_recommendations, ex_list, ex_i, ex_remaining,
                   rate_limited, api_log>>
    /\ ExecFrame

\* "time.time() < self._rate_limited_until"
rate_limit_window_off == FALSE
rate_limit_window == rate_limited

\* execute_recommendations: "if time.time() < self._rate_limited_until: continue".
execute_skip ==
    /\ InExecute /\ ex_remaining = 0 /\ ex_i <= Len(ex_list)
    /\ rate_limit_window
    /\ ex_i' = ex_i + 1
    /\ UNCHANGED <<ex_pc, active_recommendations, ex_list, ex_remaining,
                   rate_limited, api_log>>
    /\ ExecFrame

\* _execute_single: remaining = rec.quantity.
execute_single ==
    /\ InExecute /\ ex_remaining = 0 /\ ex_i <= Len(ex_list)
    /\ ~rate_limit_window
    /\ ex_remaining' = CurrentRec.quantity
    /\ UNCHANGED <<ex_pc, active_recommendations, ex_list, ex_i, rate_limited, api_log>>
    /\ ExecFrame

\* "chunk = min(remaining, MAX_ORDER_SIZE)"
chunk_size_whole(remaining) == remaining
chunk_size(remaining) == Min(remaining, MAX_ORDER_SIZE)

\* _execute_single: one pass of "while remaining > 0", the client answering
\* with an order ("ok"), a rate-limit signal or no result.
submit_chunk(result) ==
    /\ InExecute /\ ex_remaining > 0
    /\ LET rec == CurrentRec
           chunk == chunk_size(ex_remaining)
           left == IF result = "ok" THEN ex_remaining - chunk ELSE 0
       IN /\ api_log' = Append(api_log,
                               ApiCall("submit_order", ex_list[ex_i],
                                       rec.quantity - ex_remaining, rec, chunk, result))
          /\ ex_remaining' = left
          /\ ex_i' = IF left = 0 THEN ex_i + 1 ELSE ex_i
    /\ rate_limited' = (rate_limited \/ result = "rate_limited")
    /\ UNCHANGED <<ex_pc, active_recommendations, ex_list>>
    /\ ExecFrame

\* The clock passes _rate_limited_until.
rate_limit_expires ==
    /\ rate_limited
    /\ rate_limited' = FALSE
    /\ UNCHANGED <<ex_pc, active_recommendations, ex_list, ex_i, ex_remaining, api_log>>
    /\ ExecFrame

\* main.py lines 91-94: cancel_stale_orders with get_open_orders answering
\* None or an empty list ("if not open_orders: return"), then
\* sync_open_orders, which only refreshes the display list.
cancel_and_sync ==
    /\ ex_pc = "housekeeping"
    /\ ex_pc' = "window"
    /\ UNCHANGED <<active_recommendations, ex_list, ex_i, ex_remaining,
                   rate_limited, api_log>>
    /\ ExecFrame

\* One entry of GET /orders: the order id and the tick it was submitted at.
\* asked is history: cancel_order was requested for it in an earlier cycle.
Order(id, tick) == [order_id |-> id, tick |-> tick, asked |-> FALSE]

\* The fetched orders as a list, by order id.
RECURSIVE OrderList(_)
OrderList(orders) ==
    IF orders = {} THEN <<>>
    ELSE LET first == CHOOSE o \in orders :
                          \A q \in orders : o.order_id <= q.order_id
         IN <<first>> \o OrderList(orders \ {first})

\* cancel_stale_orders: get_open_orders answered with a non-empty list.
stale_fetch ==
    /\ ex_pc = "housekeeping"
    /\ open_orders # {}
    /\ stale_todo' = OrderList(open_orders)
    /\ ex_pc' = "stale"
    /\ UNCHANGED <<active_recommendations, ex_list, ex_i, ex_remaining,
                   rate_limited, api_log, open_orders>>
    /\ OrderFrame

\* cancel_order as api_log keeps it.
CancelCall(order, result) ==
    [call |-> "cancel_order", rec |-> order.order_id, offset |-> order.tick,
     ticker |-> None, order_type |-> None, quantity |-> 0, action |-> None,
     price |-> NoPrice, result |-> result]

\* "if age > ORDER_REFRESH_INTERVAL_TICKS:"
is_stale_at_limit(age) == age >= ORDER_REFRESH_INTERVAL_TICKS
is_stale(age) == age > ORDER_REFRESH_INTERVAL_TICKS

\* cancel_stale_orders, one turn of "for order in open_orders": the age is
\* taken from state.current_tick as it is now; cancel_order answers True
\* ("ok", the order leaves the book) or False ("failed", it stays).
stale_step(result) ==
    /\ ex_pc = "stale" /\ stale_todo # <<>>
    /\ LET order == Head(stale_todo)
           age == current_tick - order.tick
       IN IF is_stale(age)
          THEN /\ api_log' = Append(api_log, CancelCall(order, result))
               /\ open_orders' =
                     IF order \notin open_orders THEN open_orders
                     ELSE IF result = "ok" THEN open_orders \ {order}
                     ELSE (open_orders \ {order}) \cup {[order EXCEPT !.asked = TRUE]}
          ELSE /\ result = "ok"
               /\ UNCHANGED <<api_log, open_orders>>
    /\ stale_todo' = Tail(stale_todo)
    /\ UNCHANGED <<ex_pc, active_recommendations, ex_list, ex_i, ex_remaining,
                   rate_limited>>
    /\ OrderFrame

\* cancel_stale_orders returns; sync_open_orders refreshes the display list.
stale_return ==
    /\ ex_pc = "stale" /\ stale_todo = <<>>
    /\ ex_pc' = "window"
    /\ UNCHANGED <<active_recommendations, ex_list, ex_i, ex_remaining,
                   rate_limited, api_log, orderVars>>
    /\ OrderFrame

\* "r for r in validated if r.urgency == 'CRITICAL'"
is_closeout_any(rec) == TRUE
is_closeout(rec) == rec.urgency = "CRITICAL"

\* Indexes of the CRITICAL recommendations, in order.
RECURSIVE CriticalIndexes(_, _)
CriticalIndexes(recs, n) ==
    IF n = 0 THEN <<>>
    ELSE IF is_closeout(recs[n])
         THEN Append(CriticalIndexes(recs, n - 1), n)
         ELSE CriticalIndexes(recs, n - 1)

\* cancel_all as api_log keeps it.
CancelAllCall ==
    [call |-> "cancel_all", rec |-> 0, offset |-> 0, ticker |-> None,
     order_type |-> None, quantity |-> 0, action |-> None, price |-> NoPrice,
     result |-> "ok"]

\* The book after POST /commands/cancel: every open order is cancelled.
AfterCancelAll(orders) == {}

\* main.py lines 96-109: inside the critical window cancel_all, turn the
\* CRITICAL recommendations into MARKET orders without price (the objects
\* are those of the validated list) and execute them.
critical_closeout ==
    /\ ex_pc = "window"
    /\ IF 0 < ticks_remaining /\ ticks_remaining <= URGENCY_CRITICAL_TICKS
       THEN LET closeout ==
                    CriticalIndexes(active_recommendations, Len(active_recommendations))
            IN /\ api_log' = Append(api_log, CancelAllCall)
               /\ active_recommendations' =
                     [i \in DOMAIN active_recommendations |->
                         IF is_closeout(active_recommendations[i])
                         THEN [active_recommendations[i] EXCEPT
                                  !.order_type = "MARKET", !.price = NoPrice]
                         ELSE active_recommendations[i]]
               /\ ex_list' = closeout
               /\ ex_i' = 1
               /\ ex_pc' = IF closeout # <<>> THEN "closeout" ELSE "done"
               /\ open_orders' = AfterCancelAll(open_orders)
       ELSE /\ ex_pc' = "done"
            /\ UNCHANGED <<active_recommendations, ex_list, ex_i, api_log, open_orders>>
    /\ UNCHANGED <<ex_remaining, rate_limited, stale_todo>>
    /\ OrderFrame

\* get_case replies: mid-heat and inside the critical window.
ExecCaseInputs == {[tick |-> 300, status |-> "ACTIVE"], [tick |-> 590, status |-> "ACTIVE"]}
\* What validate_and_adjust hands over: quantities already cut to
\* MAX_ORDER_SIZE; closeout and resolved-deal legs are CRITICAL MARKET.
ExecRecs ==
    {[ticker |-> "TGX", action |-> "SELL", quantity |-> 1000, urgency |-> "CRITICAL",
      order_type |-> "MARKET", price |-> NoPrice],
     [ticker |-> "CLD", action |-> "BUY", quantity |-> 1500, urgency |-> "CRITICAL",
      order_type |-> "MARKET", price |-> NoPrice],
     [ticker |-> "BYL", action |-> "BUY", quantity |-> 5000, urgency |-> "LOW",
      order_type |-> "LIMIT", price |-> 4200]}
RECURSIVE ListsUpTo(_, _)
ListsUpTo(S, n) ==
    IF n = 0 THEN {<<>>}
    ELSE LET shorter == ListsUpTo(S, n - 1)
         IN shorter \cup {Append(l, x) : l \in shorter, x \in S}
ValidatedInputs == ListsUpTo(ExecRecs, MaxExecRecs)
SubmitResults == {"ok", "rate_limited", "none"}

NextExec ==
    \/ \E c \in ExecCaseInputs : call_update_tick(c)
    \/ lock_acquire
    \/ update_tick_write
    \/ lock_release
    \/ op_return
    \/ \E recs \in ValidatedInputs : publish_validated(recs)
    \/ execute_return
    \/ execute_skip
    \/ execute_single
    \/ \E result \in SubmitResults : submit_chunk(result)
    \/ rate_limit_expires
    \/ cancel_and_sync
    \/ critical_closeout

SpecExec == Init /\ [][NextExec]_vars

\* ------------------------------------------------- _execute_single alone
\* execute_recommendations handed recommendations of any quantity, as a
\* caller other than validate_and_adjust may: one share, just above
\* MAX_ORDER_SIZE, and two and a half times MAX_ORDER_SIZE.
ChunkRecs ==
    {[ticker |-> "TGX", action |-> "BUY", quantity |-> 1, urgency |-> "LOW",
      order_type |-> "LIMIT", price |-> 4500],
     [ticker |-> "BYL", action |-> "BUY", quantity |-> 5001, urgency |-> "LOW",
      order_type |-> "LIMIT", price |-> 4200],
     [ticker |-> "CLD", action |-> "SELL", quantity |-> 12500, urgency |-> "CRITICAL",
      order_type |-> "MARKET", price |-> NoPrice]}
ChunkInputs == ListsUpTo(ChunkRecs, MaxExecRecs)

\* get_case replies mid-heat.
ChunkCaseInputs == {[tick |-> 300, status |-> "ACTIVE"]}

NextChunk ==
    \/ \E c \in ChunkCaseInputs : call_update_tick(c)
    \/ lock_acquire
    \/ update_tick_write
    \/ lock_release
    \/ op_return
    \/ \E recs \in ChunkInputs : publish_validated(recs)
    \/ execute_return
    \/ execute_skip
    \/ execute_single
    \/ \E result \in SubmitResults : submit_chunk(result)
    \/ rate_limit_expires
    \/ cancel_and_sync
    \/ critical_closeout

SpecChunk == Init /\ [][NextChunk]_vars

\* ------------------------------------------------ critical closeout window
\* Cycles inside the critical window only: one CRITICAL closeout leg and one
\* entry leg in the validated list.
WindowRecs ==
    {[ticker |-> "TGX", action |-> "SELL", quantity |-> 1000, urgency |-> "CRITICAL",
      order_type |-> "MARKET", price |-> NoPrice],
     [ticker |-> "BYL", action |-> "BUY", quantity |-> 5000, urgency |-> "LOW",
      order_type |-> "LIMIT", price |-> 4200]}
WindowInputs == ListsUpTo(WindowRecs, MaxExecRecs)

\* get_case replies ten ticks before the end of the heat.
WindowCaseInputs == {[tick |-> 590, status |-> "ACTIVE"]}

NextWindow ==
    \/ \E c \in WindowCaseInputs : call_update_tick(c)
    \/ lock_acquire
    \/ update_tick_write
    \/ lock_release
    \/ op_return
    \/ \E recs \in WindowInputs : publish_validated(recs)
    \/ execute_return
    \/ execute_skip
    \/ execute_single
    \/ \E result \in SubmitResults : submit_chunk(result)
    \/ rate_limit_expires
    \/ cancel_and_sync
    \/ critical_closeout

SpecWindow == Init /\ [][NextWindow]_vars

\* --------------------------------------------------- cancel_stale_orders
\* The exchange keeps an order submitted in an earlier cycle open: GET
\* /orders lists it with its order id and submission tick.
order_rests(id, tick) ==
    /\ ex_pc \in {"idle", "done"}
    /\ Cardinality(open_orders) < MaxOpen
    /\ \A o \in open_orders : o.order_id # id
    /\ open_orders' = open_orders \cup {Order(id, tick)}
    /\ UNCHANGED <<execVars, stale_todo>>
    /\ OrderFrame

\* The exchange fills an open order: GET /orders no longer lists it as OPEN.
order_fills(order) ==
    /\ order \in open_orders
    /\ open_orders' = open_orders \ {order}
    /\ UNCHANGED <<execVars, stale_todo>>
    /\ OrderFrame

OrderIds == 1..MaxOpen
\* Submission ticks five and six ticks before the first get_case reply.
OrderTicks == {294, 295}
\* get_case replies mid-heat, one tick apart, and inside the critical window.
StaleCaseInputs ==
    {[tick |-> 300, status |-> "ACTIVE"], [tick |-> 301, status |-> "ACTIVE"],
     [tick |-> 590, status |-> "ACTIVE"]}
\* cancel_order answers True or False.
CancelResults == {"ok", "failed"}

NextStale ==
    \/ \E c \in StaleCaseInputs : call_update_tick(c)
    \/ lock_acquire
    \/ update_tick_write
    \/ lock_release
    \/ op_return
    \/ publish_validated(<<>>)
    \/ \E id \in OrderIds : \E tick \in OrderTicks : order_rests(id, tick)
    \/ \E order \in open_orders : order_fills(order)
    \/ cancel_and_sync
    \/ stale_fetch
    \/ \E result \in CancelResults : stale_step(result)
    \/ stale_return
    \/ critical_closeout

SpecStale == Init /\ [][NextStale]_vars

\* ======================================================== SignalGenerator
\* What the signal steps never touch.
SigFrame ==
    UNCHANGED <<dataVars, verVars, lock, recompute_event, pollVars, pollHist, waitHist,
                stratVars, stratHist, stop_pc, pmVars, execVars, exchange_position,
                cycles, orderVars, procVars>>

\* DEALS: structure and exchange_ratio, the ratio in hundredths.
structure == [d \in Deals |-> IF d = "D1" THEN "all_cash" ELSE "stock_for_stock"]
exchange_ratio == [d \in Deals |-> IF d = "D1" THEN 0 ELSE 75]
\* DealState.ideal_hedge_ratio, in hundredths.
ideal_hedge_ratio(d) == IF structure[d] = "all_cash" THEN 0 ELSE exchange_ratio[d]

\* state.deals.items() and state.positions.items() in their insertion order.
DealOrder == <<"D1", "D2">>
TickerOrder == <<"TGX", "PHR", "BYL", "CLD">>

\* int(x) for x = a / b: towards zero.
TruncDiv(a, b) == IF a >= 0 THEN a \div b ELSE -((-a) \div b)

\* TradeRecommendation(...), the fields the pipeline reads.
Signal(action, ticker, quantity, price, order_type, urgency, deal_id) ==
    [ticker |-> ticker, action |-> action, quantity |-> quantity, urgency |-> urgency,
     order_type |-> order_type, price |-> price, deal_id |-> deal_id]

\* "while qty > 0: chunk = min(qty, MAX_ORDER_SIZE) ... qty -= chunk"
RECURSIVE Chunks(_, _, _, _, _, _, _)
Chunks(action, ticker, qty, price, order_type, urgency, deal_id) ==
    IF qty <= 0 THEN <<>>
    ELSE <<Signal(action, ticker, Min(qty, MAX_ORDER_SIZE), price, order_type,
                  urgency, deal_id)>>
         \o Chunks(action, ticker, qty - Min(qty, MAX_ORDER_SIZE), price, order_type,
                   urgency, deal_id)

\* generate_signals: all_recs = [] and the loop over the deals begins.
generate_begin ==
    /\ sig_pc \in {"idle", "done"}
    /\ raw_signals' = <<>>
    /\ sig_todo' = DealOrder
    /\ sig_pc' = "deal"
    /\ UNCHANGED sig_action
    /\ SigFrame

\* _analyze_deal for a deal whose valuation gives the sign of
\* target_mispricing (0: below the threshold or inside the spread), the
\* size _compute_position_size returns and the urgency: the target leg and,
\* for a deal with a hedge ratio, the hedge leg, priced from the deal's quote.
AnalyzeRecs(d, a) ==
    IF a.mispricing = 0 \/ a.target_qty <= 0 THEN <<>>
    ELSE LET q == deal_quote[d]
             target_action == IF a.mispricing > 0 THEN "BUY" ELSE "SELL"
             target_price ==
                 IF a.mispricing > 0
                 THEN IF q.target_ask > 0 THEN q.target_ask ELSE q.target_price
                 ELSE IF q.target_bid > 0 THEN q.target_bid ELSE q.target_price
             acquirer_action == IF a.mispricing > 0 THEN "SELL" ELSE "BUY"
             acquirer_price ==
                 IF a.mispricing > 0
                 THEN IF q.acquirer_bid > 0 THEN q.acquirer_bid ELSE q.acquirer_price
                 ELSE IF q.acquirer_ask > 0 THEN q.acquirer_ask ELSE q.acquirer_price
             hedge_qty == Min(TruncDiv(a.target_qty * ideal_hedge_ratio(d), 100),
                              MAX_ORDER_SIZE)
         IN <<Signal(target_action, target_ticker[d], a.target_qty,
                     IF target_price > 0 THEN target_price ELSE NoPrice,
                     IF target_price > 0 THEN "LIMIT" ELSE "MARKET", a.urgency, d)>>
            \o IF structure[d] # "all_cash" /\ ideal_hedge_ratio(d) > 0 /\ hedge_qty > 0
               THEN <<Signal(acquirer_action, acquirer_ticker[d], hedge_qty,
                             IF acquirer_price > 0 THEN acquirer_price ELSE NoPrice,
                             IF acquirer_price > 0 THEN "LIMIT" ELSE "MARKET",
                             a.urgency, d)>>
               ELSE <<>>

\* generate_signals, one turn of the loop: "if deal.resolved:" leads into
\* _handle_resolved_deal, otherwise _analyze_deal's recommendations are added.
next_deal(a) ==
    /\ sig_pc = "deal" /\ sig_todo # <<>>
    /\ LET d == Head(sig_todo)
       IN IF deal_resolved[d]
          THEN /\ a.mispricing = 0 /\ a.target_qty = 0
               /\ sig_pc' = "target_test"
               /\ UNCHANGED <<sig_todo, raw_signals>>
          ELSE /\ raw_signals' = raw_signals \o AnalyzeRecs(d, a)
               /\ sig_todo' = Tail(sig_todo)
               /\ UNCHANGED sig_pc
    /\ UNCHANGED sig_action
    /\ SigFrame

Legs == {"target", "acquirer"}
LegPosition(d, leg) ==
    IF leg = "target" THEN deal_position[d].target_position
    ELSE deal_position[d].acquirer_position
LegTicker(d, leg) == IF leg = "target" THEN target_ticker[d] ELSE acquirer_ticker[d]
LegTest(leg) == IF leg = "target" THEN "target_test" ELSE "acquirer_test"
LegAction(leg) == IF leg = "target" THEN "target_action" ELSE "acquirer_action"
LegQty(leg) == IF leg = "target" THEN "target_qty" ELSE "acquirer_qty"
\* After the target leg comes the acquirer leg, after it the next deal.
AfterLeg(leg) == IF leg = "target" THEN "acquirer_test" ELSE "deal"
TodoAfterLeg(leg) == IF leg = "target" THEN sig_todo ELSE Tail(sig_todo)

\* _handle_resolved_deal: "if deal.target_position != 0:" (and the same
\* for the acquirer leg), the first read of the position.
resolved_leg_test(leg) ==
    /\ sig_pc = LegTest(leg)
    /\ IF LegPosition(Head(sig_todo), leg) # 0
       THEN /\ sig_pc' = LegAction(leg)
            /\ UNCHANGED sig_todo
       ELSE /\ sig_pc' = AfterLeg(leg)
            /\ sig_todo' = TodoAfterLeg(leg)
    /\ UNCHANGED <<sig_action, raw_signals>>
    /\ SigFrame

\* 'action = "SELL" if deal.target_position > 0 else "BUY"', the second read.
resolved_leg_action(leg) ==
    /\ sig_pc = LegAction(leg)
    /\ sig_action' = IF LegPosition(Head(sig_todo), leg) > 0 THEN "SELL" ELSE "BUY"
    /\ sig_pc' = LegQty(leg)
    /\ UNCHANGED <<sig_todo, raw_signals>>
    /\ SigFrame

\* "qty = abs(deal.target_position)", the third read, and the chunk loop.
resolved_leg_chunks(leg) ==
    /\ sig_pc = LegQty(leg)
    /\ LET d == Head(sig_todo)
       IN raw_signals' =
             raw_signals \o Chunks(sig_action, LegTicker(d, leg),
                                   Abs(LegPosition(d, leg)), NoPrice, "MARKET",
                                   "CRITICAL", d)
    /\ sig_action' = None
    /\ sig_pc' = AfterLeg(leg)
    /\ sig_todo' = TodoAfterLeg(leg)
    /\ SigFrame

\* round(x, 2) of a price in cents scaled by n / 1000.
RoundScaled(cents, n) == (cents * n + 500) \div 1000

\* _closeout_signals for the tickers of TickerOrder from position k on.
RECURSIVE CloseoutFrom(_)
CloseoutFrom(k) ==
    IF k > Len(TickerOrder) THEN <<>>
    ELSE LET ticker == TickerOrder[k]
             position == positions[ticker]
             ticks_left == ticks_remaining
             urgency == IF ticks_left <= URGENCY_CRITICAL_TICKS THEN "CRITICAL" ELSE "HIGH"
             order_type == IF ticks_left <= URGENCY_CRITICAL_TICKS THEN "MARKET" ELSE "LIMIT"
             action == IF position > 0 THEN "SELL" ELSE "BUY"
             price == IF order_type = "LIMIT" /\ ticker \in DOMAIN prices
                      THEN IF action = "SELL" THEN RoundScaled(prices[ticker].bid, 995)
                           ELSE RoundScaled(prices[ticker].ask, 1005)
                      ELSE NoPrice
         IN (IF position = 0 THEN <<>>
             ELSE Chunks(action, ticker, Abs(position), price, order_type, urgency, ""))
            \o CloseoutFrom(k + 1)

\* _closeout_signals
closeout_signals_always == CloseoutFrom(1)
closeout_signals ==
    IF ticks_remaining > URGENCY_CLOSE_TICKS THEN <<>> ELSE CloseoutFrom(1)

\* generate_signals: the loop is over, the closeout signals are added.
add_closeout ==
    /\ sig_pc = "deal" /\ sig_todo = <<>>
    /\ raw_signals' = raw_signals \o closeout_signals
    /\ sig_pc' = "sort"
    /\ UNCHANGED <<sig_todo, sig_action>>
    /\ SigFrame

\* all_recs.sort(key=urgency_order): a stable sort.
SortByUrgency(recs) ==
    SelectSeq(recs, LAMBDA r : r.urgency = "CRITICAL")
    \o SelectSeq(recs, LAMBDA r : r.urgency = "HIGH")
    \o SelectSeq(recs, LAMBDA r : r.urgency = "MEDIUM")
    \o SelectSeq(recs, LAMBDA r : r.urgency \notin {"CRITICAL", "HIGH", "MEDIUM"})

\* generate_signals sorts and returns; _run goes on to check_hedge_drift.
sort_and_return ==
    /\ sig_pc = "sort"
    /\ raw_signals' = SortByUrgency(raw_signals)
    /\ sig_todo' = DealOrder
    /\ sig_pc' = "drift"
    /\ UNCHANGED sig_action
    /\ SigFrame

\* check_hedge_drift: max(tolerance_shares, 100), in hundredths of a share.
drift_tolerance_flat(target_pos) == 100 * 100
drift_tolerance(target_pos) == Max(Abs(target_pos) * HEDGE_RATIO_TOLERANCE, 100 * 100)

\* check_hedge_drift, the body of the loop for one deal.
DriftRecs(d) ==
    LET target_pos == deal_position[d].target_position
        acquirer_pos == deal_position[d].acquirer_position
        expected_acquirer == -TruncDiv(target_pos * ideal_hedge_ratio(d), 100)
        drift == acquirer_pos - expected_acquirer
        qty == (Min(Abs(drift), MAX_ORDER_SIZE) \div 100) * 100
    IN IF deal_resolved[d] \/ structure[d] = "all_cash" THEN <<>>
       ELSE IF target_pos = 0
       THEN IF acquirer_pos # 0
            THEN <<Signal(IF acquirer_pos > 0 THEN "SELL" ELSE "BUY", acquirer_ticker[d],
                          Min(Abs(acquirer_pos), MAX_ORDER_SIZE), NoPrice, "MARKET",
                          "HIGH", d)>>
            ELSE <<>>
       ELSE IF Abs(drift) * 100 <= drift_tolerance(target_pos)
       THEN <<>>
       ELSE IF qty <= 0 THEN <<>>
       ELSE <<Signal(IF drift > 0 THEN "SELL" ELSE "BUY", acquirer_ticker[d], qty,
                     NoPrice, "LIMIT", "MEDIUM", d)>>

\* check_hedge_drift: one turn of the loop, raw_signals.extend at the end.
hedge_drift_deal ==
    /\ sig_pc = "drift" /\ sig_todo # <<>>
    /\ raw_signals' = raw_signals \o DriftRecs(Head(sig_todo))
    /\ sig_todo' = Tail(sig_todo)
    /\ UNCHANGED <<sig_pc, sig_action>>
    /\ SigFrame

\* check_hedge_drift returns.
hedge_drift_return ==
    /\ sig_pc = "drift" /\ sig_todo = <<>>
    /\ sig_pc' = "done"
    /\ UNCHANGED <<sig_todo, sig_action, raw_signals>>
    /\ SigFrame

\* What the valuation hands _analyze_deal: no trade, or an entry.
AnalysisInputs ==
    {[mispricing |-> 0, target_qty |-> 0, urgency |-> "LOW"],
     [mispricing |-> 1, target_qty |-> 1000, urgency |-> "LOW"]}
\* get_securities replies: the account long, then short after fills.
LongTable ==
    [t \in Tickers |->
        CASE t = "TGX" -> 7000 [] t = "PHR" -> 0 [] t = "BYL" -> 1000 [] OTHER -> -2000]
ShortTable ==
    [t \in Tickers |->
        CASE t = "TGX" -> -2000 [] t = "PHR" -> 0 [] t = "BYL" -> 0 [] OTHER -> 1000]
SignalSecurities ==
    {[price_data |-> MovedPrices, positions |-> LongTable],
     [price_data |-> MovedPrices, positions |-> ShortTable]}

\* get_case replies inside the closeout period, before the critical window.
SignalCaseInputs == {[tick |-> 550, status |-> "ACTIVE"]}

NextSignals ==
    \/ \E sec \in SignalSecurities : call_update_prices(sec)
    \/ \E d \in Deals : call_mark_deal_resolved(d, TRUE)
    \/ \E c \in SignalCaseInputs : call_update_tick(c)
    \/ PollerSteps
    \/ mark_deal_resolved_deal
    \/ mark_deal_resolved_tracker
    \/ MarketSteps
    \/ generate_begin
    \/ \E a \in AnalysisInputs : next_deal(a)
    \/ \E leg \in Legs : resolved_leg_test(leg)
    \/ \E leg \in Legs : resolved_leg_action(leg)
    \/ \E leg \in Legs : resolved_leg_chunks(leg)
    \/ add_closeout
    \/ sort_and_return
    \/ hedge_drift_deal
    \/ hedge_drift_return

SpecSignals == Init /\ [][NextSignals]_vars

\* ------------------------------------------- from the signals to the orders
\* validate_and_adjust as one call: the for loop over recs with the
\* simulated positions, the simulated gross and the seen (ticker, action) keys.
RECURSIVE validate_and_adjust(_, _, _, _)
validate_and_adjust(recs, sim, gross, seen) ==
    IF recs = <<>> THEN <<>>
    ELSE LET rec == Head(recs)
             key == <<rec.ticker, rec.action>>
             adjusted == adjust_for_limits(rec, sim, gross)
         IN IF skip_duplicate(rec, seen)
            THEN validate_and_adjust(Tail(recs), sim, gross, seen)
            ELSE IF adjusted # NoRec /\ adjusted.quantity > 0
            THEN LET delta == IF adjusted.action = "BUY"
                              THEN adjusted.quantity ELSE -adjusted.quantity
                     next_sim == [sim EXCEPT ![adjusted.ticker] = @ + delta]
                 IN <<adjusted>>
                    \o validate_and_adjust(Tail(recs), next_sim, gross_position(next_sim),
                                           seen \cup {key})
            ELSE validate_and_adjust(Tail(recs), sim, gross, seen)

\* main.py lines 82-89 once check_hedge_drift has returned: validate the raw
\* signals against state.positions, publish them and start executing.
validate_and_publish ==
    /\ sig_pc = "done"
    /\ publish_validated(validate_and_adjust(raw_signals, positions,
                                             gross_position(positions), {}))

\* Every submit_order is answered with an order.
AcceptedResults == {"ok"}

NextOrders ==
    \/ \E sec \in SignalSecurities : call_update_prices(sec)
    \/ \E d \in Deals : call_mark_deal_resolved(d, TRUE)
    \/ \E c \in SignalCaseInputs : call_update_tick(c)
    \/ PollerSteps
    \/ mark_deal_resolved_deal
    \/ mark_deal_resolved_tracker
    \/ MarketSteps
    \/ generate_begin
    \/ \E a \in AnalysisInputs : next_deal(a)
    \/ \E leg \in Legs : resolved_leg_test(leg)
    \/ \E leg \in Legs : resolved_leg_action(leg)
    \/ \E leg \in Legs : resolved_leg_chunks(leg)
    \/ add_closeout
    \/ sort_and_return
    \/ hedge_drift_deal
    \/ hedge_drift_return
    \/ validate_and_publish
    \/ execute_return
    \/ execute_single
    \/ \E result \in AcceptedResults : submit_chunk(result)
    \/ cancel_and_sync
    \/ critical_closeout

SpecOrders == Init /\ [][NextOrders]_vars

\* ------------------------------------------------------------ C1
\* The table after applying one recommendation: BUY adds, SELL subtracts.
ApplyRec(pos, rec) ==
    [pos EXCEPT ![rec.ticker] =
        IF rec.action = "BUY" THEN @ + rec.quantity ELSE @ - rec.quantity]

RECURSIVE ApplyPrefix(_, _, _)
ApplyPrefix(pos, recs, k) ==
    IF k = 0 THEN pos ELSE ApplyRec(ApplyPrefix(pos, recs, k - 1), recs[k])

WithinLimits(pos) ==
    /\ \A t \in Tickers : Abs(pos[t]) <= NET_POSITION_LIMIT
    /\ gross_position(pos) <= GROSS_POSITION_LIMIT

\* C1: from a starting table within both limits, the table after every
\* prefix of the recommendations validate_and_adjust returns keeps every
\* ticker's absolute net position <= NET_POSITION_LIMIT and the sum of
\* absolute positions <= GROSS_POSITION_LIMIT.
C1_ValidatedWithinLimits ==
    (pm_pc # "idle" /\ WithinLimits(positions)) =>
        \A k \in 0..Len(validated) :
            WithinLimits(ApplyPrefix(positions, validated, k))

\* A call returned three recommendations, the last one cut down to the
\* gross headroom left, ending exactly at the gross limit with a ticker
\* at the net limit.
C1_Witness ==
    /\ pm_pc = "done"
    /\ Len(validated) = 3
    /\ validated[3].quantity < 3000
    /\ gross_position(ApplyPrefix(positions, validated, 3)) = GROSS_POSITION_LIMIT
    /\ gross_position(positions) < GROSS_POSITION_LIMIT
    /\ \E t \in Tickers :
          Abs(ApplyPrefix(positions, validated, 3)[t]) = NET_POSITION_LIMIT

\* ------------------------------------------------------------ C2
Clamp01(x) == IF x < 0 THEN 0 ELSE IF x > ProbOne THEN ProbOne ELSE x

\* C2: after any sequence of apply_news and mark_resolved calls every
\* tracked probability is within [0, 1], and the last apply_news on a
\* tracked deal returned clamp(old_p + delta_p, 0, 1) and stored it.
C2_ProbabilityBounded ==
    /\ \A d \in DOMAIN probabilities :
          0 <= probabilities[d] /\ probabilities[d] <= ProbOne
    /\ \A d \in Deals :
          0 <= deal_probability[d] /\ deal_probability[d] <= ProbOne
    /\ last_news.tracked =>
          last_news.result = Clamp01(last_news.old_p + last_news.delta_p)

\* Three impacts in a row, the last one a large negative delta on a deal
\* already driven to 1.0: it lands inside [0, 1], not at an end.
C2_Witness ==
    /\ news_version = 3
    /\ poll_pc = "idle"
    /\ last_news.tracked
    /\ last_news.old_p = ProbOne
    /\ last_news.delta_p < 0
    /\ last_news.result > 0
    /\ \E d \in Deals : probabilities[d] = 0

\* ------------------------------------------------------------ C3
ResolvedValue(d) == IF deal_resolution[d] = "completed" THEN ProbOne ELSE 0

\* C3: once a deal is resolved its probability is exactly 1.0 (completed)
\* or 0.0 (failed) in the tracker and in the DealState, and stays there:
\* a later apply_news_impact for that deal leaves the probability alone.
C3_ResolvedProbabilityFinal ==
    \A d \in Deals :
        (poll_pc = "idle" /\ deal_resolved[d]) =>
            /\ probabilities[d] = ResolvedValue(d)
            /\ deal_probability[d] = ResolvedValue(d)

\* ------------------------------------------------------------ C4
\* The update call in progress holds pending writes.
InCriticalSection == poll_pc \in {"write", "deals", "tracker", "bump", "release"}

\* Exactly one of the three counters is one above its value when the lock
\* was taken, the other two are where they were.
OneCounterBumped ==
    LET now == <<news_version, market_version, position_version>>
    IN \E i \in 1..3 :
          /\ now[i] = ver_at_acquire[i] + 1
          /\ \A j \in (1..3) \ {i} : now[j] = ver_at_acquire[j]

\* C4: each of the five mutating operations writes while holding the lock
\* and, by the time it releases the lock, has increased exactly one of the
\* three version counters by one and left the other two unchanged; no step
\* ever decreases a counter.
C4_OneCounterPerMutation ==
    [][/\ InCriticalSection => lock = "poller"
       /\ (poll_pc = "release" /\ poll_pc' # "release") => OneCounterBumped
       /\ news_version' >= news_version
       /\ market_version' >= market_version
       /\ position_version' >= position_version]_vars

\* ------------------------------------------------------------ C5
\* C5: each of the five mutating operations has set the change notification
\* by the time it returns, and the notification is set only while the
\* calling thread does not hold the lock.
C5_NotifyAfterUnlock ==
    /\ poll_pc = "return" => op_fired
    /\ poll_pc = "fire" => lock # "poller"

\* ------------------------------------------------------------ C6
\* C6: when a cycle ends with mark_recomputed, the stored
\* _last_recompute_version is the sum of the three counters as they were
\* when the cycle began reading state, so a mutation that landed during the
\* cycle is still reported by needs_recompute() after it.
C6_MarkStoresCycleStart ==
    [][(s_pc = "mark" /\ s_pc' = "loop") =>
          /\ last_recompute_version' = cycle_start_total
          /\ version_total > cycle_start_total =>
                version_total' > last_recompute_version']_vars

\* ------------------------------------------------------------ C7
\* C7: at every return of wait_for_change, if at least one notifying
\* mutation completed since the previous return while the strategy was not
\* blocked in the wait, the call returns True; if nothing set the
\* notification since the previous return, it returns False; and the cycle
\* that follows reads a state that holds every notified mutation.
C7_SingleSlotNotification ==
    [][/\ (s_pc = "clear" /\ s_pc' = "check_running") =>
             /\ (n_out >= 1 \/ set_window) => triggered
             /\ (n_out = 0 /\ ~set_window /\ ~set_blocked /\ stop_pc # "join")
                   => ~triggered
       /\ (s_pc = "generate" /\ s_pc' = "validate") =>
             cycle_start_total' >= fired_total]_vars

\* ------------------------------------------------------------ C8
\* The poller's market updates and the strategy loop; the strategy thread
\* is scheduled again and again, and both event.wait(timeout) and
\* time.sleep(1) come to an end.
NextFair ==
    \/ \E c \in CaseInputs : call_update_tick(c)
    \/ \E sec \in SecuritiesInputs : call_update_prices(sec)
    \/ PollerSteps
    \/ MarketSteps
    \/ strategy_start
    \/ StrategySteps

FairSpec == Init /\ [][NextFair]_vars /\ WF_vars(strategy_start \/ StrategySteps)

ConsistentState ==
    /\ \A d \in Deals :
          /\ deal_position[d].target_position = positions[target_ticker[d]]
          /\ deal_position[d].acquirer_position = positions[acquirer_ticker[d]]
    /\ \A d \in Deals :
          /\ target_ticker[d] \in DOMAIN prices =>
                deal_quote[d].target_price = prices[target_ticker[d]].last
          /\ acquirer_ticker[d] \in DOMAIN prices =>
                deal_quote[d].acquirer_price = prices[acquirer_ticker[d]].last
    /\ \A d \in Deals :
          deal_resolved[d] => probabilities[d] = deal_probability[d]

\* C9: the values one recomputation reads come from one state between two
\* mutations: generate_signals reads no half-applied update_prices,
\* update_positions or mark_deal_resolved, and check_hedge_drift and
\* validate_and_adjust read the positions generate_signals read.
C9_CycleReadsOneState ==
    [][/\ (s_pc = "generate" /\ s_pc' = "validate") => ConsistentState
       /\ (s_pc = "validate" /\ s_pc' = "execute") =>
             /\ positions = snap_gen.positions
             /\ deal_position = snap_gen.deal_position]_vars

\* ------------------------------------------------------------ C10
\* C10: within one cycle no chunk of a validated recommendation is accepted
\* by the exchange twice, critical closeout window included.
C10_SentAtMostOnce ==
    \A i \in DOMAIN api_log : \A j \in DOMAIN api_log :
        (/\ i < j
         /\ api_log[i].call = "submit_order" /\ api_log[j].call = "submit_order"
         /\ api_log[i].result = "ok" /\ api_log[j].result = "ok"
         /\ api_log[i].rec = api_log[j].rec)
            => api_log[i].offset # api_log[j].offset

\* ------------------------------------------------------------ C11
\* C11: across consecutive cycles, state.positions plus the orders accepted
\* and not yet part of state.positions stays within NET_POSITION_LIMIT for
\* every ticker and within GROSS_POSITION_LIMIT in total, when the account
\* started within both limits.
C11_ExposureWithInFlight ==
    position_version >= 1 =>
        WithinLimits([t \in Tickers |-> positions[t] + in_flight[t]])

\* ------------------------------------------------------------ C12
\* The recommendation reduces the absolute position of its ticker.
Closing(rec, pos) ==
    \/ rec.action = "SELL" /\ pos[rec.ticker] > 0
    \/ rec.action = "BUY" /\ pos[rec.ticker] < 0

\* C12: validate_and_adjust never drops a CRITICAL recommendation that
\* closes a nonzero position, whatever the exposure: every such
\* recommendation the loop takes is appended to the output.
C12_CriticalClosingKept ==
    [][\A rec \in RecInputs :
          (/\ validate_step(rec)
           /\ rec.urgency = "CRITICAL"
           /\ Closing(rec, positions)
           /\ Closing(rec, simulated_positions))
             => Len(validated') = Len(validated) + 1]_vars

\* ------------------------------------------------------------ C13
KeyOf(rec) == <<rec.ticker, rec.action>>

\* C13: in the output of validate_and_adjust a recommendation that follows
\* another with the same (ticker, action) is CRITICAL, so there is at most
\* one non-CRITICAL recommendation per key and none after an accepted one
\* with its key; the seen keys are exactly the keys of the accepted
\* recommendations, so a rejected recommendation marks nothing.
C13_NoNonCriticalRepeat ==
    /\ \A i \in DOMAIN validated : \A j \in DOMAIN validated :
          (i < j /\ KeyOf(validated[i]) = KeyOf(validated[j]))
             => validated[j].urgency = "CRITICAL"
    /\ seen_ticker_actions = {KeyOf(validated[i]) : i \in DOMAIN validated}

\* Three recommendations were taken and two came out, the second a
\* CRITICAL repeat of the first one's key; with room under every limit
\* before and after, the missing one was dropped as a non-CRITICAL repeat.
C13_Witness ==
    /\ pm_pc = "done"
    /\ pm_n = 3
    /\ Len(validated) = 2
    /\ KeyOf(validated[1]) = KeyOf(validated[2])
    /\ validated[1].urgency # "CRITICAL"
    /\ gross_position(positions) <= GROSS_POSITION_LIMIT - MAX_ORDER_SIZE
    /\ \A t \in Tickers : Abs(positions[t]) <= NET_POSITION_LIMIT - MAX_ORDER_SIZE
    /\ simulated_gross <= GROSS_POSITION_LIMIT - MAX_ORDER_SIZE
    /\ \A t \in Tickers :
          Abs(simulated_positions[t]) <= NET_POSITION_LIMIT - MAX_ORDER_SIZE

\* ------------------------------------------------------------ C14
\* Where the current execute_recommendations call starts in api_log.
PassStart ==
    LET cancels == {i \in DOMAIN api_log : api_log[i].call = "cancel_all"}
    IN IF cancels = {} THEN 0 ELSE CHOOSE i \in cancels : \A k \in cancels : k <= i

\* The submit_order calls of this call for recommendation r.
ChunksOf(r) ==
    {i \in DOMAIN api_log :
        i > PassStart /\ api_log[i].call = "submit_order" /\ api_log[i].rec = r}

RECURSIVE SumQuantity(_)
SumQuantity(idx) ==
    IF idx = {} THEN 0
    ELSE LET i == CHOOSE x \in idx : TRUE
         IN api_log[i].quantity + SumQuantity(idx \ {i})

\* _execute_single is inside its while loop for recommendation r.
InProgress(r) == InExecute /\ ex_remaining > 0 /\ ex_list[ex_i] = r

\* C14: every submit_order call carries a quantity from 1 to MAX_ORDER_SIZE;
\* the chunks of a recommendation follow one another, each starting where
\* the accepted ones before it end; and once _execute_single has returned
\* with every submission accepted the chunks add up to the quantity.
C14_ChunksBoundedAndComplete ==
    /\ \A i \in DOMAIN api_log :
          api_log[i].call = "submit_order" =>
             /\ 1 <= api_log[i].quantity
             /\ api_log[i].quantity <= MAX_ORDER_SIZE
    /\ \A r \in DOMAIN active_recommendations :
          /\ \A i \in ChunksOf(r) :
                LET before == {k \in ChunksOf(r) : k < i}
                IN /\ \A k \in before : api_log[k].result = "ok" /\ k >= i - Cardinality(before)
                   /\ api_log[i].offset = SumQuantity(before)
          /\ (/\ ChunksOf(r) # {}
              /\ \A i \in ChunksOf(r) : api_log[i].result = "ok"
              /\ ~InProgress(r))
                => SumQuantity(ChunksOf(r)) = active_recommendations[r].quantity

\* A recommendation of 12500 shares went out as 5000, 5000 and 2500.
C14_Witness ==
    /\ Len(api_log) >= 3
    /\ \E r \in DOMAIN active_recommendations :
          /\ active_recommendations[r].quantity = 12500
          /\ Cardinality(ChunksOf(r)) = 3
          /\ \A i \in ChunksOf(r) : api_log[i].result = "ok"
          /\ \E i \in ChunksOf(r) : api_log[i].quantity = 2500 /\ api_log[i].offset = 10000
          /\ ~InProgress(r)

\* ------------------------------------------------------------ C15
\* C15: from a rate-limit signal until its wait has elapsed the executor
\* makes no submit_order call, in this or any later execute_recommendations
\* call; and within one execute_recommendations call nothing more is sent
\* for the recommendation whose chunk was rate limited.
C15_NoSubmitWhileRateLimited ==
    [][/\ (rate_limited /\ Len(api_log') > Len(api_log)) =>
             api_log'[Len(api_log')].call # "submit_order"
       /\ \A r \in DOMAIN active_recommendations :
             \A i \in ChunksOf(r) :
                api_log[i].result = "rate_limited" =>
                   \A k \in ChunksOf(r) : k <= i]_vars

\* The 12500-share recommendation had its second chunk rate limited: the
\* third chunk and the recommendation after it were skipped, and the list
\* is finished with the window still open.
C15_Witness ==
    /\ rate_limited
    /\ ex_pc = "housekeeping"
    /\ Len(active_recommendations) = 2
    /\ active_recommendations[1].quantity = 12500
    /\ Len(api_log) = 2
    /\ api_log[1].result = "ok"
    /\ api_log[2].result = "rate_limited" /\ api_log[2].rec = 1

\* ------------------------------------------------------------ C16
\* C16: when submit_order returns no result for a chunk, nothing more is
\* submitted for that recommendation in the rest of the cycle, and the loop
\* goes on to the next recommendation of the list.
C16_FailedAbandonedForCycle ==
    [][/\ \A i \in DOMAIN api_log : \A k \in DOMAIN api_log :
             (/\ i < k
              /\ api_log[i].call = "submit_order" /\ api_log[i].result = "none"
              /\ api_log[k].call = "submit_order")
                => api_log[k].rec # api_log[i].rec
       /\ (/\ Len(api_log') = Len(api_log) + 1
           /\ api_log'[Len(api_log')].result = "none")
             => /\ ex_i' = ex_i + 1
                /\ ex_remaining' = 0
                /\ ex_pc' = ex_pc]_vars

\* ------------------------------------------------------------ C17
\* cancel_stale_orders looks at the next fetched order in this step.
StaleCheck == ex_pc = "stale" /\ stale_todo # <<>> /\ stale_todo' = Tail(stale_todo)

\* This step called cancel_order for the order.
CancelRequested(order) ==
    /\ Len(api_log') = Len(api_log) + 1
    /\ api_log'[Len(api_log')].call = "cancel_order"
    /\ api_log'[Len(api_log')].rec = order.order_id

PastAgeLimit(order) == current_tick - order.tick > ORDER_REFRESH_INTERVAL_TICKS

\* C17 as stated: in a cycle whose open-order fetch succeeds, cancel_order
\* is requested for a fetched order exactly when its age is greater than
\* ORDER_REFRESH_INTERVAL_TICKS, and no order that was past the age limit
\* in an earlier cycle is still open and past the limit in this one.
C17_StaleCancelledNextCycle ==
    [][StaleCheck =>
         LET order == Head(stale_todo)
         IN /\ CancelRequested(order) <=> PastAgeLimit(order)
            /\ ~(order.asked /\ order \in open_orders /\ PastAgeLimit(order))]_vars

\* C17, amended: in a cycle whose open-order fetch succeeds, cancel_order
\* is requested for a fetched order exactly when its age is greater than
\* ORDER_REFRESH_INTERVAL_TICKS; an order whose request is answered True is
\* no longer open, and an order found open and past the limit again in a
\* later cycle is asked for again.
C17_StaleCancelRequested ==
    [][StaleCheck =>
         LET order == Head(stale_todo)
         IN /\ CancelRequested(order) <=> PastAgeLimit(order)
            /\ (CancelRequested(order) /\ api_log'[Len(api_log')].result = "ok")
                  => order \notin open_orders'
            /\ (order.asked /\ PastAgeLimit(order)) => CancelRequested(order)]_vars

\* A pass has cancelled an order past the limit and left one at the limit.
C17_Witness ==
    /\ ex_pc = "window"
    /\ \E i \in DOMAIN api_log :
          /\ api_log[i].call = "cancel_order" /\ api_log[i].result = "ok"
          /\ current_tick - api_log[i].offset > ORDER_REFRESH_INTERVAL_TICKS
          /\ \A o \in open_orders : o.order_id # api_log[i].rec
    /\ \E o \in open_orders :
          /\ current_tick - o.tick = ORDER_REFRESH_INTERVAL_TICKS
          /\ \A i \in DOMAIN api_log : api_log[i].rec # o.order_id

\* ------------------------------------------------------------ C18
\* Position of cancel_all in the log, 0 when it was not called.
CancelAllAt(log) ==
    IF \E i \in DOMAIN log : log[i].call = "cancel_all"
    THEN CHOOSE i \in DOMAIN log : log[i].call = "cancel_all"
    ELSE 0

\* Recommendations with a submit_order after cancel_all.
Resubmitted(log) ==
    {log[k].rec : k \in {j \in DOMAIN log : j > CancelAllAt(log)
                                           /\ log[j].call = "submit_order"}}

CriticalOf(recs) == {i \in DOMAIN recs : recs[i].urgency = "CRITICAL"}

\* The step reads ticks_remaining inside the critical window.
WindowRead ==
    /\ ex_pc = "window" /\ ex_pc' # "window"
    /\ 0 < ticks_remaining /\ ticks_remaining <= URGENCY_CRITICAL_TICKS

\* Every submit_order after cancel_all is a MARKET order without price.
ResubmittedAsMarket(log) ==
    \A k \in DOMAIN log :
        (k > CancelAllAt(log) /\ log[k].call = "submit_order")
            => log[k].order_type = "MARKET" /\ log[k].price = NoPrice

\* C18 as stated: in a cycle that reads 0 < ticks_remaining <=
\* URGENCY_CRITICAL_TICKS, cancel_all is called before anything is
\* resubmitted, and when the cycle ends the recommendations resubmitted
\* after it are exactly the validated CRITICAL ones, each as a MARKET order
\* without price.
C18_CriticalResubmittedExactly ==
    [][/\ WindowRead =>
             /\ Len(api_log') = Len(api_log) + 1
             /\ api_log'[Len(api_log')].call = "cancel_all"
       /\ (ex_pc' = "done" /\ CancelAllAt(api_log') # 0) =>
             /\ Resubmitted(api_log') = CriticalOf(active_recommendations')
             /\ ResubmittedAsMarket(api_log')]_vars

\* C18, amended: in a cycle that reads 0 < ticks_remaining <=
\* URGENCY_CRITICAL_TICKS, cancel_all is called before anything is
\* resubmitted; only validated CRITICAL recommendations are resubmitted
\* after it, each as a MARKET order without price; and a CRITICAL
\* recommendation is passed over only while the rate-limit window is open.
C18_OnlyCriticalResubmitted ==
    [][/\ WindowRead =>
             /\ Len(api_log') = Len(api_log) + 1
             /\ api_log'[Len(api_log')].call = "cancel_all"
       /\ CancelAllAt(api_log') # 0 =>
             /\ Resubmitted(api_log') \subseteq CriticalOf(active_recommendations')
             /\ ResubmittedAsMarket(api_log')
       /\ (ex_pc = "closeout" /\ ex_i' = ex_i + 1 /\ api_log' = api_log)
             => rate_limited]_vars

\* A critical-window cycle ended with a CRITICAL recommendation resubmitted
\* after cancel_all and a non-CRITICAL one of the same list left alone.
C18_Witness ==
    /\ ex_pc = "done"
    /\ CancelAllAt(api_log) # 0
    /\ Resubmitted(api_log) # {}
    /\ Resubmitted(api_log) = CriticalOf(active_recommendations)
    /\ \E i \in DOMAIN active_recommendations :
          active_recommendations[i].urgency # "CRITICAL"

\* ------------------------------------------------------------ C19
\* Positions of the recommendations this step appended to raw_signals for
\* deal d and ticker t.
Appended(d, t) ==
    IF Len(raw_signals') > Len(raw_signals)
       /\ SubSeq(raw_signals', 1, Len(raw_signals)) = raw_signals
    THEN {i \in (Len(raw_signals) + 1)..Len(raw_signals') :
             raw_signals'[i].deal_id = d /\ raw_signals'[i].ticker = t}
    ELSE {}

RECURSIVE SignalSum(_, _)
SignalSum(recs, idx) ==
    IF idx = {} THEN 0
    ELSE LET i == CHOOSE x \in idx : TRUE
         IN recs[i].quantity + SignalSum(recs, idx \ {i})

\* C19: for a resolved deal, whatever generate_signals and check_hedge_drift
\* add with the deal's id is a CRITICAL MARKET closing leg: the action is
\* opposite to the sign of the leg's position, every chunk is at most
\* MAX_ORDER_SIZE, the chunks of the leg add up to the absolute position,
\* and nothing is added for a leg whose position is zero.
C19_ResolvedDealOnlyCloses ==
    [][\A d \in Deals : \A leg \in Legs :
          LET new == Appended(d, LegTicker(d, leg))
              position == LegPosition(d, leg)
          IN (deal_resolved[d] /\ new # {}) =>
                /\ position # 0
                /\ \A i \in new :
                      /\ raw_signals'[i].urgency = "CRITICAL"
                      /\ raw_signals'[i].order_type = "MARKET"
                      /\ raw_signals'[i].price = NoPrice
                      /\ raw_signals'[i].quantity > 0
                      /\ raw_signals'[i].quantity <= MAX_ORDER_SIZE
                      /\ raw_signals'[i].action = IF position > 0 THEN "SELL" ELSE "BUY"
                /\ SignalSum(raw_signals', new) = Abs(position)]_vars

\* ------------------------------------------------------------ C20
\* C20: every order the executor submits with type LIMIT carries a price
\* and every order it submits with type MARKET carries none, whichever
\* part of the strategy loop produced the recommendation.
C20_LimitPricedMarketUnpriced ==
    \A i \in DOMAIN api_log :
        api_log[i].call = "submit_order" =>
            /\ api_log[i].order_type = "LIMIT" => api_log[i].price # NoPrice
            /\ api_log[i].order_type = "MARKET" => api_log[i].price = NoPrice

\* ------------------------------------------------------------ C21
\* The poller's case and market updates, the strategy loop and stop(); the
\* strategy thread is scheduled again and again, and event.wait(timeout)
\* and time.sleep(1) come to an end.
NextStop ==
    \/ \E c \in CaseInputs : call_update_tick(c)
    \/ \E sec \in SecuritiesInputs : call_update_prices(sec)
    \/ PollerSteps
    \/ MarketSteps
    \/ strategy_start
    \/ StrategySteps
    \/ stop_flag
    \/ stop_set

FairStopSpec == Init /\ [][NextStop]_vars /\ WF_vars(strategy_start \/ StrategySteps)

\* stop() has set the event: a loop in wait_for_change finds it set.
WakesAtOnce == (stop_pc = "join" /\ s_pc = "wait") => recompute_event

\* C21 as stated: once stop() has been called a loop blocked in
\* wait_for_change wakes without waiting out the timeout, no cycle is
\* started any more, and the loop terminates.
C21_NoCycleAfterStop ==
    /\ []WakesAtOnce
    /\ [][stop_pc # "idle" => ~(s_pc # "generate" /\ s_pc' = "generate")]_vars
    /\ (stop_pc # "idle") ~> (s_pc = "exited")

\* C21, amended: once stop() has been called a loop blocked in
\* wait_for_change wakes without waiting out the timeout, no iteration
\* passes "while self.running" or "if not self.running" any more, so the
\* only cycle that can still start is that of an iteration which had
\* passed its running-flag check before the flag was cleared, and the loop
\* terminates.
C21_StopEndsLoop ==
    /\ []WakesAtOnce
    /\ [][stop_pc # "idle" =>
            /\ ~(s_pc = "loop" /\ s_pc' = "wait")
            /\ ~(s_pc = "check_running" /\ s_pc' = "check_status")
            /\ (s_pc # "generate" /\ s_pc' = "generate") => s_pc = "check_status"]_vars
    /\ (stop_pc # "idle") ~> (s_pc = "exited")

\* stop() set the event while the loop sat in wait_for_change, and the
\* wait has returned with the event set.
C21_Witness ==
    /\ stop_pc = "join"
    /\ ~running
    /\ s_pc = "clear"
    /\ triggered
    /\ set_blocked
    /\ n_out = 0

\* ------------------------------------------------------------ C22
\* What main()'s steps never touch.
MainFrame ==
    UNCHANGED <<dataVars, verVars, lock, recompute_event, pollVars, pollHist, waitHist,
                stratVars, stratHist, stop_pc, pmVars, execVars, exchange_position,
                cycles, stale_todo, sigVars, feedVars, valueVars>>

\* main, "finally:": executor.cancel_all() comes first.
shutdown_cancel_all ==
    /\ main_pc = "serving"
    /\ s_pc # "not_started"
    /\ main_pc' = "cancelled"
    /\ open_orders' = AfterCancelAll(open_orders)
    /\ MainFrame

\* main, "finally:": strategy.stop() follows, self.running = False.
shutdown_stop_flag == main_pc = "cancelled" /\ stop_flag

\* strategy.stop(): self._thread.join(timeout=2) returns, the thread over or
\* not; poller.stop() and the end of main follow.
shutdown_join ==
    /\ main_pc = "cancelled" /\ stop_pc = "join"
    /\ main_pc' = "stopped"
    /\ UNCHANGED open_orders
    /\ MainFrame

\* main.py lines 85-89 inside the loop: the validated list is published
\* and execute_recommendations begins.
cycle_publish(recs) ==
    /\ s_pc = "execute" /\ ex_pc = "idle"
    /\ publish_validated(recs)

\* main.py line 109 is behind: the cycle goes on to mark_recomputed.
cycle_executed ==
    /\ s_pc = "execute" /\ ex_pc = "done"
    /\ s_pc' = "mark"
    /\ ex_pc' = "idle"
    /\ UNCHANGED <<dataVars, verVars, lock, recompute_event, pollVars, pollHist,
                   waitHist, running, triggered, snap_gen, last_recompute_version,
                   stratHist, stop_pc, pmVars, active_recommendations, ex_list, ex_i,
                   ex_remaining, rate_limited, api_log, bookVars>>

\* One validated closing leg per cycle.
ShutdownInputs ==
    {<<[ticker |-> "TGX", action |-> "SELL", quantity |-> 1000, urgency |-> "LOW",
        order_type |-> "LIMIT", price |-> 4500]>>}

NextShutdown ==
    \/ \E c \in ChunkCaseInputs : call_update_tick(c)
    \/ lock_acquire
    \/ update_tick_write
    \/ lock_release
    \/ op_return
    \/ strategy_start
    \/ loop_test
    \/ wait_wake
    \/ wait_timeout
    \/ wait_clear
    \/ check_running
    \/ check_status
    \/ generate_signals
    \/ validate_signals
    \/ \E recs \in ShutdownInputs : cycle_publish(recs)
    \/ execute_return
    \/ execute_single
    \/ \E result \in AcceptedResults : submit_chunk(result)
    \/ cancel_and_sync
    \/ critical_closeout
    \/ cycle_executed
    \/ mark_recomputed
    \/ shutdown_cancel_all
    \/ shutdown_stop_flag
    \/ stop_set
    \/ shutdown_join

SpecShutdown == Init /\ [][NextShutdown]_vars

\* C22: on shutdown no order is submitted after the final cancel_all: once
\* main has issued it, the strategy thread calls submit_order no more.
C22_NoSubmitAfterFinalCancel ==
    [][main_pc # "serving" =>
          ~(/\ Len(api_log') = Len(api_log) + 1
            /\ api_log'[Len(api_log')].call = "submit_order")]_vars

\* ====================================================== DataPoller._poll_news
\* What the loop of _poll_news never touches itself.
NewsPollFrame ==
    UNCHANGED <<dataVars, verVars, lock, recompute_event, pollVars, pollHist, waitHist,
                stratVars, stratHist, stop_pc, pmVars, execVars, exchange_position,
                cycles, orderVars, sigVars, mainVars, valueVars>>

\* What classifier.classify and compute_delta_p make of the item with this
\* id: no deal matched, a resolution, or an impact with its delta_p.
NewsItem(news_id) ==
    CASE news_id % 4 = 1 -> [kind |-> "impact", deal_id |-> "D1", delta_p |-> 5000,
                             completed |-> FALSE]
      [] news_id % 4 = 2 -> [kind |-> "resolution", deal_id |-> "D2", delta_p |-> 0,
                             completed |-> TRUE]
      [] news_id % 4 = 3 -> [kind |-> "impact", deal_id |-> "D1", delta_p |-> 0 - 10000,
                             completed |-> FALSE]
      [] OTHER -> [kind |-> "unmatched", deal_id |-> "", delta_p |-> 0,
                   completed |-> FALSE]

\* Replies of GET /news: any ids in any order, repeats included.
NewsBatches == UNION {[1..n -> NewsIds] : n \in 0..MaxBatch}

\* "if news_id <= self.state.last_news_id: continue"
is_seen_below(news_id, last) == news_id < last
is_seen(news_id, last) == news_id <= last

\* news_items = self.client.get_news(since=...); "if not news_items: return".
poll_news_begin(batch) ==
    /\ news_pc = "idle" /\ poll_pc = "idle"
    /\ news_items' = batch
    /\ news_pc' = IF batch = <<>> THEN "idle" ELSE "loop"
    /\ news_start' = last_news_id
    /\ news_offered' = {batch[i] : i \in DOMAIN batch}
    /\ UNCHANGED <<last_news_id, news_item, news_polls, applied>>
    /\ NewsPollFrame

\* One pass of "for item in news_items" up to the MarketState call: the
\* id test, last_news_id, the classification and "if classified.deal_id is None".
news_item_test ==
    /\ news_pc = "loop" /\ news_items # <<>>
    /\ LET news_id == Head(news_items)
           fresh == ~is_seen(news_id, last_news_id)
           matched == NewsItem(news_id).kind # "unmatched"
       IN /\ news_items' = Tail(news_items)
          /\ last_news_id' = IF fresh THEN news_id ELSE last_news_id
          /\ news_pc' = IF fresh /\ matched THEN "apply" ELSE "loop"
          /\ news_item' = IF fresh /\ matched THEN news_id ELSE 0
          /\ news_polls' = polls
    /\ UNCHANGED <<news_start, news_offered, applied>>
    /\ NewsPollFrame

\* self.state.mark_deal_resolved(...) or self.state.apply_news_impact(impact).
news_item_call ==
    /\ news_pc = "apply" /\ polls = news_polls
    /\ LET item == NewsItem(news_item)
       IN IF item.kind = "resolution"
          THEN call_mark_deal_resolved(item.deal_id, item.completed)
          ELSE call_apply_news_impact(item)

\* The MarketState call is back: "continue", or the end of the loop body.
news_item_applied ==
    /\ news_pc = "apply" /\ polls > news_polls /\ poll_pc = "idle"
    /\ applied' = [applied EXCEPT ![news_item] = @ + 1]
    /\ news_pc' = "loop"
    /\ news_item' = 0
    /\ UNCHANGED <<last_news_id, news_items, news_polls, news_start, news_offered>>
    /\ NewsPollFrame

\* The for loop is over.
poll_news_return ==
    /\ news_pc = "loop" /\ news_items = <<>>
    /\ news_pc' = "idle"
    /\ UNCHANGED <<last_news_id, news_items, news_item, news_polls, news_start,
                   news_offered, applied>>
    /\ NewsPollFrame

NextNews ==
    \/ \E batch \in NewsBatches : poll_news_begin(batch)
    \/ news_item_test
    \/ news_item_call
    \/ news_item_applied
    \/ poll_news_return
    \/ lock_acquire
    \/ apply_news_impact_tracker
    \/ apply_news_impact_deal
    \/ mark_deal_resolved_deal
    \/ mark_deal_resolved_tracker
    \/ version_bump
    \/ lock_release
    \/ fire_event
    \/ op_return

SpecNews == Init /\ [][NextNews]_vars

\* ------------------------------------------------------------ C23
\* C23: across news polls whose batches overlap or repeat items, the impact
\* or resolution of one news id reaches MarketState at most once, and
\* last_news_id never decreases.
C23_NewsAppliedOnce ==
    /\ [](\A n \in NewsIds : applied[n] <= 1)
    /\ [][last_news_id' >= last_news_id]_vars

\* A poll is over whose batch repeated an item applied by an earlier poll.
C23_Witness ==
    /\ news_pc = "idle"
    /\ \E n \in news_offered : n <= news_start /\ applied[n] = 1

\* ------------------------------------------------------------ C30
\* C30: every item of a get_news reply whose id is above last_news_id as
\* it was when the poll began has been applied to MarketState when the
\* poll is over, in whatever order the reply lists its items.
C30_NoNewItemSkipped ==
    news_pc = "idle" =>
        \A n \in news_offered :
            (n > news_start /\ NewsItem(n).kind # "unmatched") => applied[n] >= 1

\* ================================================= valuation of the five deals
\* What the valuation steps never touch.
ValueFrame ==
    UNCHANGED <<dataVars, verVars, lock, recompute_event, pollVars, pollHist, waitHist,
                stratVars, stratHist, stop_pc, pmVars, execVars, exchange_position,
                cycles, orderVars, sigVars, mainVars, feedVars>>

DealIdOrder == <<"D1", "D2", "D3", "D4", "D5">>

\* MarketState.gross_position over the tickers of the deals.
RECURSIVE GrossFrom(_, _)
GrossFrom(ds, k) ==
    IF k > Len(DealIdOrder) THEN 0
    ELSE Abs(ds[DealIdOrder[k]].target_position)
         + Abs(ds[DealIdOrder[k]].acquirer_position) + GrossFrom(ds, k + 1)
deals_gross(ds) == GrossFrom(ds, 1)

\* update_prices, the part for one deal: last, bid and ask of its two
\* tickers; a quote without bid and ask leaves them 0.
deal_prices(d, m) ==
    /\ moves < MaxMoves
    /\ LET cfg == DEALS[d]
           t == QAdd(cfg.target_start_price, Q(m.target, 100))
           a == QAdd(cfg.acquirer_start_price, Q(m.acquirer, 100))
           half == Q(m.spread, 200)
           quoted == m.spread > 0
       IN deals' = [deals EXCEPT ![d] =
              [@ EXCEPT !.target_price = t,
                        !.target_bid = IF quoted THEN QSub(t, half) ELSE QInt(0),
                        !.target_ask = IF quoted THEN QAdd(t, half) ELSE QInt(0),
                        !.acquirer_price = a,
                        !.acquirer_bid = IF quoted THEN QSub(a, half) ELSE QInt(0),
                        !.acquirer_ask = IF quoted THEN QAdd(a, half) ELSE QInt(0)]]
    /\ moves' = moves + 1
    /\ UNCHANGED <<analyzed, analysis>>
    /\ ValueFrame

\* update_positions, the part for one deal.
deal_positions(d, pos) ==
    /\ moves < MaxMoves
    /\ deals' = [deals EXCEPT ![d] = [@ EXCEPT !.target_position = pos.target,
                                               !.acquirer_position = pos.acquirer]]
    /\ moves' = moves + 1
    /\ UNCHANGED <<analyzed, analysis>>
    /\ ValueFrame

\* apply_news_impact: self.deals[impact.deal_id].probability = new_p, new_p
\* being the tracker's clamped sum.
deal_news(d, delta_p) ==
    /\ moves < MaxMoves
    /\ deals' = [deals EXCEPT ![d] =
          [@ EXCEPT !.probability = QMax(QInt(0), QMin(QInt(1), QAdd(@, delta_p)))]]
    /\ moves' = moves + 1
    /\ UNCHANGED <<analyzed, analysis>>
    /\ ValueFrame

\* generate_signals, one unresolved deal: recs = self._analyze_deal(deal, state).
analyze(d) ==
    /\ ~deals[d].resolved
    /\ analyzed' = d
    /\ analysis' = analyze_deal(deals[d], deals_gross(deals))
    /\ UNCHANGED <<deals, moves>>
    /\ ValueFrame

\* Moves of the target and the acquirer in cents, and the bid-ask spread.
PriceMoves ==
    {[target |-> 0 - 300, acquirer |-> 0, spread |-> 0],
     [target |-> 0 - 300, acquirer |-> 400, spread |-> 4],
     [target |-> 10, acquirer |-> 0, spread |-> 0],
     [target |-> 300, acquirer |-> 0, spread |-> 4],
     [target |-> 300, acquirer |-> 0, spread |-> 800]}
PositionInputs ==
    {[target |-> 9000, acquirer |-> 0 - 3000], [target |-> 49950, acquirer |-> 0],
     [target |-> 0 - 49950, acquirer |-> 40000]}
DeltaInputs == {Q(0 - 30, 100)}

NextValue ==
    \/ \E d \in DealIds : \E m \in PriceMoves : deal_prices(d, m)
    \/ \E d \in DealIds : \E pos \in PositionInputs : deal_positions(d, pos)
    \/ \E d \in DealIds : \E delta_p \in DeltaInputs : deal_news(d, delta_p)
    \/ \E d \in DealIds : analyze(d)

SpecValue == Init /\ [][NextValue]_vars

\* ------------------------------------------------------------ C24
\* C24: right after initialize_all_deals every deal's intrinsic price
\* p0*K0 + (1-p0)*V is its target's opening price P0, its mispricing is zero,
\* and _analyze_deal returns no recommendation for it.
C24_FreshDealsFairlyPriced ==
    moves = 0 =>
        /\ \A d \in DealIds :
              /\ intrinsic_target_price(deals[d]) = DEALS[d].target_start_price
              /\ target_mispricing(deals[d]) = QInt(0)
              /\ analyze_deal(deals[d], deals_gross(deals)) = <<>>
        /\ analysis = <<>>

\* generate_signals has looked at the mixed deal on the fresh state.
C24_Witness == moves = 0 /\ analyzed = "D3" /\ analysis = <<>>

\* ------------------------------------------------------------ C25
\* The deal passes _analyze_deal's threshold and spread filters and its
\* computed size is positive.
Tradable(deal, current_gross) ==
    LET m == QAbs(target_mispricing(deal))
        spread == QSub(deal.target_ask, deal.target_bid)
    IN /\ ~QLess(m, MIN_MISPRICING_THRESHOLD)
       /\ ~(deal.target_ask.n > 0 /\ deal.target_bid.n > 0 /\ spread.n > 0
            /\ QLess(m, QMul(spread, SPREAD_SAFETY_FACTOR)))
       /\ compute_position_size(deal, current_gross, target_mispricing(deal)) > 0

\* What the claim asks of the legs returned for a tradable deal.
LegsAsStated(deal, legs) ==
    LET cfg == deal.config
        up == target_mispricing(deal).n > 0
        hedges == {i \in DOMAIN legs : legs[i].ticker = cfg.acquirer_ticker}
        targets == {i \in DOMAIN legs : legs[i].ticker = cfg.target_ticker}
    IN /\ targets = {1}
       /\ legs[1].action = (IF up THEN "BUY" ELSE "SELL")
       /\ ~legs[1].is_hedge_leg
       /\ DOMAIN legs = targets \cup hedges
       /\ IF cfg.structure = "all_cash" THEN hedges = {}
          ELSE /\ Cardinality(hedges) = 1
               /\ \A i \in hedges :
                     /\ legs[i].action = (IF up THEN "SELL" ELSE "BUY")
                     /\ legs[i].is_hedge_leg
                     /\ legs[i].quantity =
                           Min((legs[1].quantity * cfg.exchange_ratio.n)
                                   \div cfg.exchange_ratio.d,
                               MAX_ORDER_SIZE)

\* C25: for an unresolved deal that passes the filters with a positive
\* size, _analyze_deal returns a target leg that buys an undervalued and
\* sells an overvalued target, plus, unless the deal is all cash, exactly
\* one opposite acquirer leg flagged is_hedge_leg of quantity
\* int(target_qty * exchange_ratio) capped at MAX_ORDER_SIZE.
C25_EntryLegs ==
    [][\A d \in DealIds :
          (analyzed' = d /\ UNCHANGED <<deals, moves>>
             /\ Tradable(deals[d], deals_gross(deals)))
              => LegsAsStated(deals[d], analysis')]_vars

\* A stock deal was bought in full size, the short hedge capped.
C25_Witness ==
    /\ analyzed = "D5" /\ Len(analysis) = 2
    /\ analysis[1].action = "BUY" /\ analysis[1].quantity = MAX_ORDER_SIZE
    /\ analysis[2].action = "SELL" /\ analysis[2].quantity = MAX_ORDER_SIZE

\* ------------------------------------------------------------ C26
\* get_case replies outside the closeout period, at both of its edges and
\* at both edges of the critical window.
CloseoutCaseInputs ==
    {[tick |-> t, status |-> "ACTIVE"] :
        t \in {HEAT_DURATION_TICKS - URGENCY_CLOSE_TICKS - 1,
               HEAT_DURATION_TICKS - URGENCY_CLOSE_TICKS,
               HEAT_DURATION_TICKS - URGENCY_CRITICAL_TICKS - 1,
               HEAT_DURATION_TICKS - URGENCY_CRITICAL_TICKS}}

\* generate_signals over unresolved deals, the poller moving the tick, the
\* prices and the positions meanwhile.
NextCloseout ==
    \/ \E sec \in SignalSecurities : call_update_prices(sec)
    \/ \E c \in CloseoutCaseInputs : call_update_tick(c)
    \/ PollerSteps
    \/ MarketSteps
    \/ generate_begin
    \/ \E a \in AnalysisInputs : next_deal(a)
    \/ add_closeout
    \/ sort_and_return

SpecCloseout == Init /\ [][NextCloseout]_vars

UrgencyRank(u) ==
    CASE u = "CRITICAL" -> 0 [] u = "HIGH" -> 1 [] u = "MEDIUM" -> 2 [] OTHER -> 3

\* What the claim asks of the legs _closeout_signals returns.
CloseoutAsStated(legs) ==
    LET left == ticks_remaining
        critical == left <= URGENCY_CRITICAL_TICKS
    IN \A t \in Tickers :
          LET idx == {i \in DOMAIN legs : legs[i].ticker = t}
          IN IF left > URGENCY_CLOSE_TICKS \/ positions[t] = 0 THEN idx = {}
             ELSE /\ idx # {}
                  /\ SignalSum(legs, idx) = Abs(positions[t])
                  /\ \A i \in idx :
                        /\ legs[i].action = (IF positions[t] > 0 THEN "SELL" ELSE "BUY")
                        /\ legs[i].quantity > 0 /\ legs[i].quantity <= MAX_ORDER_SIZE
                        /\ legs[i].urgency = (IF critical THEN "CRITICAL" ELSE "HIGH")
                        /\ legs[i].order_type = (IF critical THEN "MARKET" ELSE "LIMIT")

\* C26: inside the closeout period generate_signals adds, for every ticker
\* with a nonzero position, legs opposite to the position in chunks of at
\* most MAX_ORDER_SIZE that add up to the absolute position, HIGH LIMIT
\* before the critical window and CRITICAL MARKET inside it; it adds none
\* outside the period or for a flat ticker; and the list it returns is
\* ordered CRITICAL, HIGH, MEDIUM, LOW.
C26_CloseoutLegs ==
    /\ [][(sig_pc = "deal" /\ sig_pc' = "sort") =>
             CloseoutAsStated(SubSeq(raw_signals', Len(raw_signals) + 1,
                                     Len(raw_signals')))]_vars
    /\ [][(sig_pc = "sort" /\ sig_pc' = "drift") =>
             \A i \in DOMAIN raw_signals' : \A j \in DOMAIN raw_signals' :
                 i < j => UrgencyRank(raw_signals'[i].urgency)
                          <= UrgencyRank(raw_signals'[j].urgency)]_vars

\* Inside the critical window a long position of two chunks is closed
\* ahead of an entry leg.
C26_Witness ==
    /\ sig_pc = "drift"
    /\ ticks_remaining <= URGENCY_CRITICAL_TICKS
    /\ Len(raw_signals) >= 3
    /\ raw_signals[1].ticker = "TGX" /\ raw_signals[1].urgency = "CRITICAL"
    /\ raw_signals[1].quantity = MAX_ORDER_SIZE
    /\ raw_signals[2].ticker = "TGX" /\ raw_signals[2].action = "SELL"
    /\ raw_signals[Len(raw_signals)].urgency = "LOW"

\* ------------------------------------------------------------ C27
\* get_securities replies: a hedge too short, an orphaned hedge, a hedge
\* off by less than the tolerance, a hedge on the wrong side by more than
\* one order.
DriftTables ==
    {[t \in Tickers |-> CASE t = "BYL" -> 1000 [] t = "CLD" -> 0 - 2000 [] OTHER -> 0],
     [t \in Tickers |-> CASE t = "BYL" -> 0 [] t = "CLD" -> 1000 [] OTHER -> 0],
     [t \in Tickers |-> CASE t = "BYL" -> 0 - 40000 [] t = "CLD" -> 31000 [] OTHER -> 0],
     [t \in Tickers |-> CASE t = "TGX" -> 500 [] t = "PHR" -> 300 [] t = "BYL" -> 8000
                          [] OTHER -> 2000]}
DriftSecurities == {[price_data |-> MovedPrices, positions |-> p] : p \in DriftTables}
FlatAnalysis == {[mispricing |-> 0, target_qty |-> 0, urgency |-> "LOW"]}

\* One strategy pass up to the end of check_hedge_drift, with the poller
\* moving positions and resolving deals meanwhile.
NextDrift ==
    \/ \E sec \in DriftSecurities : call_update_prices(sec)
    \/ \E d \in Deals : call_mark_deal_resolved(d, TRUE)
    \/ PollerSteps
    \/ mark_deal_resolved_deal
    \/ mark_deal_resolved_tracker
    \/ update_prices_write
    \/ update_prices_deals
    \/ update_positions_write
    \/ update_positions_deals
    \/ generate_begin
    \/ \E a \in FlatAnalysis : next_deal(a)
    \/ \E leg \in Legs : resolved_leg_test(leg)
    \/ \E leg \in Legs : resolved_leg_action(leg)
    \/ \E leg \in Legs : resolved_leg_chunks(leg)
    \/ add_closeout
    \/ sort_and_return
    \/ hedge_drift_deal
    \/ hedge_drift_return

SpecDrift == Init /\ [][NextDrift]_vars

\* What the claim asks of the recommendations check_hedge_drift adds for deal d.
DriftAsStated(d, added) ==
    LET target_pos == deal_position[d].target_position
        acquirer_pos == deal_position[d].acquirer_position
        whole == (Abs(target_pos) * exchange_ratio[d]) \div 100
        expected == IF target_pos >= 0 THEN 0 - whole ELSE whole
        drift == acquirer_pos - expected
        over == 10 * Abs(drift) > Abs(target_pos) /\ Abs(drift) > 100
    IN IF deal_resolved[d] \/ structure[d] = "all_cash" THEN added = <<>>
       ELSE IF target_pos # 0 /\ over
       THEN /\ Len(added) = 1
            /\ added[1].ticker = acquirer_ticker[d]
            /\ added[1].urgency = "MEDIUM" /\ added[1].order_type = "LIMIT"
            /\ added[1].action = (IF drift > 0 THEN "SELL" ELSE "BUY")
            /\ added[1].quantity > 0 /\ added[1].quantity % 100 = 0
            /\ added[1].quantity <= Min(Abs(drift), MAX_ORDER_SIZE)
       ELSE IF target_pos = 0 /\ acquirer_pos # 0
       THEN /\ Len(added) = 1
            /\ added[1].ticker = acquirer_ticker[d]
            /\ added[1].urgency = "HIGH" /\ added[1].order_type = "MARKET"
            /\ added[1].action = (IF acquirer_pos > 0 THEN "SELL" ELSE "BUY")
            /\ added[1].quantity = Min(Abs(acquirer_pos), MAX_ORDER_SIZE)
       ELSE added = <<>>

\* C27: for an unresolved deal with a stock component check_hedge_drift
\* adds at most one recommendation, on the acquirer: a MEDIUM LIMIT order
\* against the drift, a positive multiple of 100 not above
\* min(|drift|, MAX_ORDER_SIZE), when the target position is nonzero and
\* |drift| exceeds max(10% of |target position|, 100); a HIGH MARKET order
\* of min(|acquirer position|, MAX_ORDER_SIZE) against an acquirer position
\* left without a target position; nothing otherwise, and nothing for a
\* resolved or an all_cash deal.
C27_HedgeDrift ==
    [][(sig_pc = "drift" /\ sig_todo # <<>> /\ sig_todo' = Tail(sig_todo)) =>
          DriftAsStated(Head(sig_todo),
                        SubSeq(raw_signals', Len(raw_signals) + 1,
                               Len(raw_signals')))]_vars

\* The hedge of D2 stood on the wrong side by 8000 shares: one full order sells.
C27_Witness ==
    /\ sig_pc = "done"
    /\ ~deal_resolved["D2"]
    /\ deal_position["D2"] = [target_position |-> 8000, acquirer_position |-> 2000]
    /\ Len(raw_signals) = 1
    /\ raw_signals[1].ticker = "CLD" /\ raw_signals[1].action = "SELL"
    /\ raw_signals[1].quantity = MAX_ORDER_SIZE /\ raw_signals[1].urgency = "MEDIUM"

\* ------------------------------------------------------------ C28
\* One pass of the strategy pipeline inside the critical window, up to the
\* validated list: generate_signals, check_hedge_drift, validate_and_adjust.
NextPass ==
    \/ \E sec \in SignalSecurities : call_update_prices(sec)
    \/ \E d \in Deals : call_mark_deal_resolved(d, TRUE)
    \/ \E c \in WindowCaseInputs : call_update_tick(c)
    \/ PollerSteps
    \/ mark_deal_resolved_deal
    \/ mark_deal_resolved_tracker
    \/ MarketSteps
    \/ generate_begin
    \/ \E a \in AnalysisInputs : next_deal(a)
    \/ \E leg \in Legs : resolved_leg_test(leg)
    \/ \E leg \in Legs : resolved_leg_action(leg)
    \/ \E leg \in Legs : resolved_leg_chunks(leg)
    \/ add_closeout
    \/ sort_and_return
    \/ hedge_drift_deal
    \/ hedge_drift_return
    \/ validate_and_publish

SpecPass == Init /\ [][NextPass]_vars

\* A resolved-deal leg, an end-of-heat closeout leg or an orphan-hedge flatten.
IsClosingLeg(r) ==
    \/ r.deal_id = ""
    \/ r.urgency = "CRITICAL"
    \/ r.urgency = "HIGH" /\ r.order_type = "MARKET"

\* The validated closing legs that act against the position held in ticker t.
ClosingLegs(recs, t) ==
    {i \in DOMAIN recs :
        /\ recs[i].ticker = t
        /\ IsClosingLeg(recs[i])
        /\ recs[i].action = (IF positions[t] >= 0 THEN "SELL" ELSE "BUY")}

\* C28: the position-closing legs one pass validates for a ticker never
\* add up to more than the absolute position of that ticker.
C28_ClosingWithinPosition ==
    [][(sig_pc = "done" /\ ex_pc = "idle" /\ ex_pc' # "idle") =>
          \A t \in Tickers :
              SignalSum(active_recommendations',
                        ClosingLegs(active_recommendations', t))
                  <= Abs(positions[t])]_vars

\* ------------------------------------------------------------ C29
\* The recommendation moves the position of its ticker towards zero without
\* crossing it.
ReducesPosition(r) ==
    LET held == positions[r.ticker]
        after == IF r.action = "BUY" THEN held + r.quantity ELSE held - r.quantity
    IN Abs(after) < Abs(held)

\* C29: inside the closeout period every recommendation generate_signals
\* returns reduces the absolute position of its ticker; no entry leg and
\* no hedge leg that opens or increases a position is among them.
C29_OnlyReducingInCloseout ==
    [][(sig_pc = "sort" /\ sig_pc' = "drift"
        /\ ticks_remaining <= URGENCY_CLOSE_TICKS) =>
          \A i \in DOMAIN raw_signals' : ReducesPosition(raw_signals'[i])]_vars

====
